---- MODULE Spec2Model ----
(***************************************************************************)
(* A model of vizoxide's graph layer (src/src/graph.rs, src/src/attr.rs):  *)
(* the Rust wrappers Graph / Node / Edge / NodeIter / EdgeIter over the    *)
(* native cgraph tables.  The native tables are the state; every wrapper   *)
(* method is an action (or an operator when it is pure) translated from    *)
(* its body, and every sys::ag* call it makes is an operator that follows  *)
(* libcgraph's behaviour for a root graph.                                  *)
(*                                                                         *)
(* Strings are sequences of bytes, so that CString::new can reject an      *)
(* embedded NUL (byte 0).  A node pointer is the node's AGSEQ (cgraph      *)
(* numbers nodes and edges in creation order); an edge pointer is the pair *)
(* of the edge's AGSEQ and the half of its Agedgepair_s it points to       *)
(* (AGOUTEDGE or AGINEDGE).                                                 *)
(***************************************************************************)
EXTENDS Integers, Sequences, FiniteSets, TLC

\* ------------------------------------------------------------ bounds
\* How many nodes / edges the native graph may allocate in one behaviour.
MaxNodes == 2
MaxEdges == 1

\* ------------------------------------------------------------ constants
\* cgraph object kinds (Agtag_s.objtype), as the wrappers name them.
AGRAPH == 0
AGNODE == 1
AGOUTEDGE == 2
AGINEDGE == 3

\* A null node pointer, and a null edge pointer.
NULL == 0
NULLE == [id |-> 0, type |-> 0]

\* ------------------------------------------------------------ strings
NameA == <<65>>
NameB == <<66>>
NameC == <<67>>
NameNul == <<65, 0, 66>>
KeyX == <<120>>

\* Option<&str>
None == <<>>
Some(s) == <<s>>

\* The names the callers pass: node names, and optional edge names.
NodeNames == {NameA, NameB, NameNul}
IterNodeNames == {NameA, NameB, NameC}
IterEdgeNames == {None}
EdgeNames == {None, Some(KeyX), Some(NameNul)}

\* Result<T, GraphvizError>
Ok(v) == [ok |-> TRUE, val |-> v, err |-> "none"]
Err(e) == [ok |-> FALSE, val |-> NULL, err |-> e]

\* CString::new(s): fails with NulError iff s holds a 0 byte, and otherwise
\* owns the bytes of s followed by the terminator; the From impl turns a
\* NulError into GraphvizError::InvalidString.
HasNul(s) == \E i \in 1..Len(s) : s[i] = 0
FromNulError_creation == "GraphCreationFailed"
FromNulError == "InvalidString"
CStringNew_unchecked(s) == Ok(s \o <<0>>)
CStringNew(s) == IF HasNul(s) THEN Err(FromNulError) ELSE Ok(s \o <<0>>)

\* What native code (and CStr::from_ptr) reads at a char pointer: the bytes
\* before the first 0.
CStr(p) ==
    LET nul == CHOOSE i \in 1..Len(p) : p[i] = 0 /\ \A j \in 1..(i - 1) : p[j] # 0
    IN SubSeq(p, 1, nul - 1)

\* CStr::to_str: the bytes as a &str when they are valid UTF-8; over the
\* one-byte characters the model passes, that is when each is below 128.
to_str(b) ==
    IF \A i \in 1..Len(b) : b[i] < 128 THEN Ok(b) ELSE Err("InvalidUtf8")

VARIABLES
    desc,      \* Agdesc_t of the graph: [directed, strict]
    g_nodes,   \* the node table: AGSEQ of each live node |-> its name
    g_edges,   \* the edge table: AGSEQ of each live edge |-> [tail, head, key]
    seq,       \* [node, edge]: the last AGSEQ handed out per kind
    cap,       \* [node, edge]: how many allocations the native heap grants
    attrs,     \* attribute state: [dict, g, n, e] (see the attribute section)
    last,      \* what the last wrapper call was given, saw and returned
    nit,       \* the live NodeIter, if any
    eit,       \* the live EdgeIter, if any
    rt         \* the native handles and the Rust values that hold them

vars == <<desc, g_nodes, g_edges, seq, cap, attrs, last, nit, eit, rt>>

\* ------------------------------------------------------------ native: nodes
Nodes == DOMAIN g_nodes
Edges == DOMAIN g_edges

\* agnnodes / agnedges
agnnodes == Cardinality(Nodes)
agnedges == Cardinality(Edges)

MinOf(S) == CHOOSE x \in S : \A y \in S : x <= y

\* The node whose name is the string s, or NULL.
NodeNamed(s) ==
    IF \E n \in Nodes : g_nodes[n] = s
    THEN CHOOSE n \in Nodes : g_nodes[n] = s
    ELSE NULL

\* agnode(g, name, 0): the node named by the C string at `name`, or NULL.
agfindnode(name) == NodeNamed(CStr(name))

\* agfstnode / agnxtnode walk g->n_seq, the node set ordered by AGSEQ.
agfstnode == IF Nodes = {} THEN NULL ELSE MinOf(Nodes)

agnxtnode(n) ==
    LET later == {m \in Nodes : m > n}
    IN IF later = {} THEN NULL ELSE MinOf(later)

\* agnode(g, name, createflag): the node of that name when there is one;
\* otherwise, with createflag, a new node (unless the allocation fails), which
\* gets the next AGSEQ and an attribute record holding the node defaults.
\* The result is the pointer returned and the tables afterwards.
agnode(name, createflag, alloc) ==
    LET found == agfindnode(name)
        n == seq.node + 1
    IN IF found # NULL
       THEN [ret |-> found, nodes |-> g_nodes, seq |-> seq, attrs |-> attrs]
       ELSE IF createflag = 1 /\ alloc
       THEN [ret |-> n,
             nodes |-> (n :> CStr(name)) @@ g_nodes,
             seq |-> [seq EXCEPT !.node = n],
             attrs |-> [attrs EXCEPT !.n = (n :> attrs.dict.n) @@ @]]
       ELSE [ret |-> NULL, nodes |-> g_nodes, seq |-> seq, attrs |-> attrs]

\* ------------------------------------------------------------ native: edges
MkOut(e) == [id |-> e, type |-> AGOUTEDGE]
MkIn(e) == [id |-> e, type |-> AGINEDGE]

agtail(h) == g_edges[h.id].tail
aghead(h) == g_edges[h.id].head

\* (*e).node: an out-edge half stores the head, an in-edge half the tail.
EdgeNode(h) == IF h.type = AGOUTEDGE THEN aghead(h) ELSE agtail(h)

OutSet(n) == {e \in Edges : g_edges[e].tail = n}
InSet(n) == {e \in Edges : g_edges[e].head = n}

\* agedgeseqcmpf: a node's out-edges are ordered by the AGSEQ of the other end
\* and then by the edge's own AGSEQ; its in-edges likewise.
OutLess(e, f) ==
    \/ g_edges[e].head < g_edges[f].head
    \/ g_edges[e].head = g_edges[f].head /\ e < f

InLess(e, f) ==
    \/ g_edges[e].tail < g_edges[f].tail
    \/ g_edges[e].tail = g_edges[f].tail /\ e < f

FirstOut(S) ==
    IF S = {} THEN NULLE
    ELSE MkOut(CHOOSE e \in S : \A f \in S \ {e} : OutLess(e, f))

FirstIn(S) ==
    IF S = {} THEN NULLE
    ELSE MkIn(CHOOSE e \in S : \A f \in S \ {e} : InLess(e, f))

agfstout(n) == FirstOut(OutSet(n))
agnxtout(h) == FirstOut({f \in OutSet(agtail(h)) : OutLess(h.id, f)})
agfstin(n) == FirstIn(InSet(n))
agnxtin(h) == FirstIn({f \in InSet(aghead(h)) : InLess(h.id, f)})

\* agfstedge / agnxtedge walk every edge incident on n: its out-edges, then
\* its in-edges, leaving out the loops among the in-edges.
RECURSIVE SkipLoops(_, _)
SkipLoops(h, n) ==
    IF h = NULLE \/ EdgeNode(h) # n THEN h ELSE SkipLoops(agnxtin(h), n)

agfstedge(n) ==
    LET rv == agfstout(n)
    IN IF rv = NULLE THEN agfstin(n) ELSE rv

agnxtedge(h, n) ==
    IF h.type = AGOUTEDGE
    THEN LET rv == agnxtout(h)
         IN IF rv = NULLE THEN SkipLoops(agfstin(n), n) ELSE rv
    ELSE SkipLoops(agnxtin(h), n)

\* agfindedge_by_key(g, t, h, key): the search of h's in-edge set (so what it
\* finds is an in-edge half) for an edge from t whose id is the key's; a key
\* of object type 0 is a wild card.  Among parallel edges a wild-card search
\* may find any one of them: the result is the set of candidates.
Wild == [wild |-> TRUE, name |-> None]
Key(name) == [wild |-> FALSE, name |-> Some(CStr(name[1]))]

agfindedge_by_key(t, h, key) ==
    {MkIn(e) : e \in {f \in Edges :
        /\ g_edges[f].tail = t
        /\ g_edges[f].head = h
        /\ (key.wild \/ (g_edges[f].key # None /\ g_edges[f].key = key.name))}}

\* The probe agedge makes before it creates: by name when there is one, by
\* wild card when there is none and the call is a lookup or the graph is
\* strict; an undirected graph is searched in both orientations.
agedge_probe(t, h, name, cflag) ==
    LET have_id == name # None
        key == IF have_id THEN Key(name) ELSE Wild
        fwd == agfindedge_by_key(t, h, key)
    IN IF have_id \/ (cflag = 0 \/ desc.strict)
       THEN IF fwd = {} /\ ~desc.directed
            THEN agfindedge_by_key(h, t, key)
            ELSE fwd
       ELSE {}

\* ok_to_make_edge: a strict graph takes no second edge from t to h.
ok_to_make_edge(t, h) ==
    ~(desc.strict /\ agfindedge_by_key(t, h, Wild) # {})

\* agedge(g, t, h, name, cflag): the set of results it may give, each the
\* pointer returned (NULLE for a null pointer) and the tables afterwards.
agedge(t, h, name, cflag, alloc) ==
    LET probe == agedge_probe(t, h, name, cflag)
        e == seq.edge + 1
        same(ret) == [ret |-> ret, edges |-> g_edges, seq |-> seq, attrs |-> attrs]
    IN IF probe # {}
       THEN {same(p) : p \in probe}
       ELSE IF cflag = 1 /\ ok_to_make_edge(t, h) /\ alloc
       THEN {[ret |-> MkOut(e),
              edges |-> (e :> [tail |-> t, head |-> h,
                               key |-> IF name = None THEN None
                                       ELSE Some(CStr(name[1]))]) @@ g_edges,
              seq |-> [seq EXCEPT !.edge = e],
              attrs |-> [attrs EXCEPT !.e = (e :> attrs.dict.e) @@ @]]}
       ELSE {same(NULLE)}

\* agdeledge(g, e): takes the edge out of the tables.
Without(f, x) == [y \in DOMAIN f \ {x} |-> f[y]]
WithoutAll(f, X) == [y \in DOMAIN f \ X |-> f[y]]

\* agdelnode(g, n): deletes every edge incident on n, then n.
IncidentEdges(n) == OutSet(n) \cup InSet(n)

\* ------------------------------------------------------------ Edge::from_node
\* The scans of determine_source_through_graph_traversal,
\* determine_source_for_undirected and get_opposite_node: walk the nodes from
\* `c` on, skip `known`, ask agedge(g, c, known, NULL, 0) for an edge and
\* return c when the pointer it gives is one of `targets`; NULL when the walk
\* ends.  agedge may find any of several parallel edges, so the result is
\* the set of nodes the scan may return.
RECURSIVE ScanNodes(_, _, _)
ScanNodes(c, known, targets) ==
    IF c = NULL THEN {NULL}
    ELSE IF c = known THEN ScanNodes(agnxtnode(c), known, targets)
    ELSE LET found == agedge_probe(c, known, None, 0)
             hit == found \cap targets # {}
             miss == found \ targets # {} \/ found = {}
         IN (IF hit THEN {c} ELSE {})
            \cup (IF miss THEN ScanNodes(agnxtnode(c), known, targets) ELSE {})

determine_source_through_graph_traversal(h) ==
    ScanNodes(agfstnode, EdgeNode(h), {h})

determine_source_for_undirected(h) ==
    ScanNodes(agfstnode, EdgeNode(h), {h})

\* self.inner.cast::<Agedgepair_s>().offset(1): the address one whole edge
\* pair after the pointer.  From an out-edge half (the start of its pair) that
\* is the end of the pair, where no in-edge half of another pair can lie; the
\* pointers agedge gives are in-edge halves, so the comparison never holds.
PairAfter(h) == {}

\* A fallback that answers with a node other than the known one, whether or
\* not the edge touches it.
get_opposite_node_other(h, known) ==
    IF Nodes \ {known} = {} THEN {known} ELSE Nodes \ {known}

get_opposite_node(h, known) ==
    LET scan == ScanNodes(agfstnode, known, {h} \cup PairAfter(h))
    IN (scan \ {NULL}) \cup (IF NULL \in scan THEN {known} ELSE {})

\* Edge::from_node: the set of nodes it may return for the edge pointer h.
from_node(h) ==
    IF desc.directed
    THEN IF h.type = AGOUTEDGE
         THEN LET source == determine_source_through_graph_traversal(h)
              IN (source \ {NULL})
                 \cup (IF NULL \in source
                       THEN get_opposite_node(h, EdgeNode(h)) ELSE {})
         ELSE {EdgeNode(h)}
    ELSE LET potential == determine_source_for_undirected(h)
         IN (potential \ {NULL})
            \cup (IF NULL \in potential THEN {EdgeNode(h)} ELSE {})

\* ------------------------------------------------------------ iterators
NoNodeIter == [live |-> FALSE, next |-> NULL, yielded |-> <<>>,
               ended |-> FALSE, clean |-> TRUE]
NoEdgeIter == [live |-> FALSE, node |-> NULL, next |-> NULLE, current_node |-> NULL,
               outgoing |-> TRUE, yielded |-> <<>>, ended |-> FALSE, clean |-> TRUE]

\* A call that changed the tables happened while the iterator was live.
Touched(it) == IF it.live THEN [it EXCEPT !.clean = FALSE] ELSE it

\* A native walk from a pointer whose object was deleted reads freed memory:
\* it may come back with a null pointer or with any object of the graph.
Handles == {MkOut(e) : e \in Edges} \cup {MkIn(e) : e \in Edges}
NxtNode(n) == IF n \in Nodes THEN {agnxtnode(n)} ELSE {NULL} \cup Nodes
NxtOut(h) == IF h.id \in Edges THEN {agnxtout(h)} ELSE {NULLE} \cup Handles
NxtIn(h) == IF h.id \in Edges THEN {agnxtin(h)} ELSE {NULLE} \cup Handles
NxtEdge(h, n) == IF h.id \in Edges THEN {agnxtedge(h, n)} ELSE {NULLE} \cup Handles

\* Graph::nodes
GraphNodes ==
    [live |-> TRUE, next |-> agfstnode, yielded |-> <<>>,
     ended |-> FALSE, clean |-> TRUE]

\* A next that hands out the node after the current one.
NodeIterNext_skip(it) ==
    IF it.next = NULL
    THEN {[it |-> [it EXCEPT !.ended = TRUE], ret |-> NULL]}
    ELSE {[it |-> [it EXCEPT !.next = nx, !.yielded = Append(@, nx)],
           ret |-> nx] : nx \in NxtNode(it.next) \ {NULL}}
         \cup {[it |-> [it EXCEPT !.next = NULL], ret |-> NULL] :
                    nx \in NxtNode(it.next) \cap {NULL}}

\* A next that hands out its node and stays on it.
NodeIterNext_again(it) ==
    IF it.next = NULL
    THEN {[it |-> [it EXCEPT !.ended = TRUE], ret |-> NULL]}
    ELSE {[it |-> [it EXCEPT !.yielded = Append(@, it.next)], ret |-> it.next]}

\* NodeIter::next: the iterators it may become, with the item returned
\* (NULL for None).
NodeIterNext(it) ==
    IF it.next = NULL
    THEN {[it |-> [it EXCEPT !.ended = TRUE], ret |-> NULL]}
    ELSE LET current == it.next
         IN {[it |-> [it EXCEPT !.next = nx, !.yielded = Append(@, current)],
              ret |-> current] : nx \in NxtNode(current)}

\* Graph::edges
GraphEdges ==
    LET first_node == agfstnode
        first_edge == IF first_node # NULL THEN agfstedge(first_node) ELSE NULLE
    IN [live |-> TRUE, node |-> NULL, next |-> first_edge,
        current_node |-> first_node, outgoing |-> TRUE,
        yielded |-> <<>>, ended |-> FALSE, clean |-> TRUE]

\* Graph::out_edges / Graph::in_edges
GraphOutEdges(node) ==
    [live |-> TRUE, node |-> node, next |-> agfstout(node),
     current_node |-> node, outgoing |-> TRUE,
     yielded |-> <<>>, ended |-> FALSE, clean |-> TRUE]

\* An in_edges that starts from the node's first out-edge.
GraphInEdges_fstout(node) ==
    [live |-> TRUE, node |-> node, next |-> agfstout(node),
     current_node |-> node, outgoing |-> FALSE,
     yielded |-> <<>>, ended |-> FALSE, clean |-> TRUE]

GraphInEdges(node) ==
    [live |-> TRUE, node |-> node, next |-> agfstin(node),
     current_node |-> node, outgoing |-> FALSE,
     yielded |-> <<>>, ended |-> FALSE, clean |-> TRUE]

\* EdgeIter::next, the part after `let current = self.next`.
EdgeIterYield(it) ==
    LET current == it.next
        nexts == IF it.node # NULL
                 THEN IF it.outgoing THEN NxtOut(current) ELSE NxtIn(current)
                 ELSE NxtEdge(current, it.current_node)
    IN {[it |-> [it EXCEPT !.next = nx, !.yielded = Append(@, current)],
         ret |-> current] : nx \in nexts}

\* A next that gives up at the first node without edges it moves to.
EdgeIterNext_stop(it) ==
    LET none(i) == [it |-> [i EXCEPT !.ended = TRUE], ret |-> NULLE]
    IN IF it.next = NULLE
       THEN IF it.node = NULL /\ it.current_node # NULL
            THEN UNION {
                   IF cn = NULL
                   THEN {none([it EXCEPT !.current_node = NULL])}
                   ELSE LET moved == [it EXCEPT !.current_node = cn,
                                                !.next = agfstedge(cn)]
                        IN IF moved.next = NULLE
                           THEN {none(moved)}
                           ELSE EdgeIterYield(moved)
                   : cn \in NxtNode(it.current_node)}
            ELSE {none(it)}
       ELSE EdgeIterYield(it)

\* EdgeIter::next: the iterators it may become, with the item returned
\* (NULLE for None).
RECURSIVE EdgeIterNext(_)
EdgeIterNext(it) ==
    LET none(i) == [it |-> [i EXCEPT !.ended = TRUE], ret |-> NULLE]
    IN IF it.next = NULLE
       THEN IF it.node = NULL /\ it.current_node # NULL
            THEN UNION {
                   IF cn = NULL
                   THEN {none([it EXCEPT !.current_node = NULL])}
                   ELSE LET moved == [it EXCEPT !.current_node = cn,
                                                !.next = agfstedge(cn)]
                        IN IF moved.next = NULLE
                           THEN EdgeIterNext(moved)
                           ELSE EdgeIterYield(moved)
                   : cn \in NxtNode(it.current_node)}
            ELSE {none(it)}
       ELSE EdgeIterYield(it)

\* ------------------------------------------------------------ Graph methods
\* What a call leaves in `last`: its name, its arguments, the counts as they
\* were when it was made, and what it returned.
Pre == [nc |-> agnnodes, ec |-> agnedges]
Call(op, arg, ret) == [op |-> op, arg |-> arg, pre |-> Pre, ret |-> ret]

\* Whether the native heap grants the allocation of one more node / edge,
\* should the call ask for one: it may always refuse.
NodeAlloc == BOOLEAN
EdgeAlloc == BOOLEAN

\* The graph is followed up to `cap` nodes and edges made: a call that would
\* make one more is not taken.
WithinCap == seq'.node <= cap.node /\ seq'.edge <= cap.edge

\* Graph::add_node, with the createflag it passes to agnode.
add_node_with(name, alloc, createflag) ==
    LET c == CStringNew(name)
        arg == [name |-> name, alloc |-> alloc, found |-> NodeNamed(name)]
    IN IF ~c.ok
       THEN /\ last' = Call("add_node", arg, Err(c.err))
            /\ UNCHANGED <<rt, desc, g_nodes, g_edges, seq, cap, attrs, nit, eit>>
       ELSE LET r == agnode(c.val, createflag, alloc)
            IN /\ g_nodes' = r.nodes
               /\ seq' = r.seq
               /\ attrs' = r.attrs
               /\ last' = Call("add_node", arg,
                               IF r.ret = NULL THEN Err("NodeCreationFailed")
                               ELSE Ok(r.ret))
               /\ nit' = IF r.nodes # g_nodes THEN Touched(nit) ELSE nit
               /\ eit' = IF r.nodes # g_nodes THEN Touched(eit) ELSE eit
               /\ UNCHANGED <<rt, desc, g_edges, cap>>

\* A wrapper that makes a node without looking the name up first.
add_node_fresh(name, alloc) ==
    LET n == seq.node + 1
    IN /\ ~HasNul(name)
       /\ alloc
       /\ g_nodes' = (n :> name) @@ g_nodes
       /\ seq' = [seq EXCEPT !.node = n]
       /\ attrs' = [attrs EXCEPT !.n = (n :> attrs.dict.n) @@ @]
       /\ last' = Call("add_node",
                       [name |-> name, alloc |-> alloc, found |-> NodeNamed(name)],
                       Ok(n))
       /\ nit' = Touched(nit)
       /\ eit' = Touched(eit)
       /\ UNCHANGED <<rt, desc, g_edges, cap>>

add_node(name, alloc) == add_node_with(name, alloc, 1)

\* A get_node that passes createflag 1 to agnode.
get_node_creating(name) ==
    LET c == CStringNew(name)
        r == agnode(c.val, 1, TRUE)
    IN /\ c.ok
       /\ g_nodes' = r.nodes
       /\ seq' = r.seq
       /\ attrs' = r.attrs
       /\ last' = Call("get_node", [name |-> name], Ok(r.ret))
       /\ UNCHANGED <<rt, desc, g_edges, cap, nit, eit>>

\* Graph::get_node
get_node(name) ==
    LET c == CStringNew(name)
    IN /\ last' = Call("get_node", [name |-> name],
                       IF c.ok THEN Ok(agnode(c.val, 0, FALSE).ret) ELSE Err(c.err))
       /\ UNCHANGED <<rt, desc, g_nodes, g_edges, seq, cap, attrs, nit, eit>>

\* The edges between `from` and `to` (in either orientation when the graph is
\* undirected) that carry the name `name`.
SameEdges(from, to, name) ==
    {e \in Edges :
        /\ name # None
        /\ g_edges[e].key = name
        /\ \/ g_edges[e].tail = from /\ g_edges[e].head = to
           \/ ~desc.directed /\ g_edges[e].tail = to /\ g_edges[e].head = from}

\* name.map(CString::new).transpose(): the C string of the name, if any.
OptCString(name) ==
    IF name = None THEN Ok(None)
    ELSE LET c == CStringNew(name[1])
         IN IF c.ok THEN Ok(Some(c.val)) ELSE [Err(c.err) EXCEPT !.val = None]

\* Graph::add_edge: name.map(CString::new).transpose()?, then agedge with
\* the name pointer `name_ptr` and createflag 1.
add_edge_with(from, to, name, alloc, name_ptr) ==
    LET arg == [from |-> from, to |-> to, name |-> name, alloc |-> alloc,
                same |-> SameEdges(from, to, name),
                any |-> OutSet(from) \cap InSet(to),
                rev |-> OutSet(to) \cap InSet(from)]
    IN IF ~OptCString(name).ok
       THEN /\ last' = Call("add_edge", arg,
                            [Err(OptCString(name).err) EXCEPT !.val = NULLE])
            /\ UNCHANGED <<rt, desc, g_nodes, g_edges, seq, cap, attrs, nit, eit>>
       ELSE \E r \in agedge(from, to, name_ptr, 1, alloc) :
               /\ g_edges' = r.edges
               /\ seq' = r.seq
               /\ attrs' = r.attrs
               /\ last' = Call("add_edge", arg,
                               IF r.ret = NULLE
                               THEN [Err("EdgeCreationFailed") EXCEPT !.val = NULLE]
                               ELSE Ok(r.ret))
               /\ nit' = IF r.edges # g_edges THEN Touched(nit) ELSE nit
               /\ eit' = IF r.edges # g_edges THEN Touched(eit) ELSE eit
               /\ UNCHANGED <<rt, desc, g_nodes, cap>>

\* A wrapper that lost the name on the way to agedge.
add_edge_unnamed(from, to, name, alloc) == add_edge_with(from, to, name, alloc, None)

add_edge(from, to, name, alloc) ==
    add_edge_with(from, to, name, alloc, OptCString(name).val)

\* Graph::find_edge: agedge with no name and createflag 0; None is NULLE.
find_edge(from, to) ==
    \E r \in agedge(from, to, None, 0, FALSE) :
        /\ last' = Call("find_edge", [from |-> from, to |-> to], Ok(r.ret))
        /\ UNCHANGED <<rt, desc, g_nodes, g_edges, seq, cap, attrs, nit, eit>>

\* A node and an edge of another graph: pointers that are none of this
\* graph's.
ForeignNode == 0 - 1
ForeignEdge == [id |-> ForeignNode, type |-> AGOUTEDGE]

\* agdelnode(g, n): for a node of the graph, deletes the edges incident on
\* it, then the node, and reports success (0); a node the graph does not
\* hold is reported as a failure (-1), and nothing is deleted.
agdelnode(n) ==
    IF n \in Nodes
    THEN [ret |-> 0,
          nodes |-> Without(g_nodes, n),
          edges |-> WithoutAll(g_edges, IncidentEdges(n)),
          attrs |-> [attrs EXCEPT !.n = Without(@, n),
                                  !.e = WithoutAll(@, IncidentEdges(n))]]
    ELSE [ret |-> 0 - 1, nodes |-> g_nodes, edges |-> g_edges, attrs |-> attrs]

\* agdeledge(g, e): likewise for an edge, by either of its halves.
agdeledge(e) ==
    IF e.id \in Edges
    THEN [ret |-> 0,
          edges |-> Without(g_edges, e.id),
          attrs |-> [attrs EXCEPT !.e = Without(@, e.id)]]
    ELSE [ret |-> 0 - 1, edges |-> g_edges, attrs |-> attrs]

\* A remove_node that leaves the edges of the node in the graph.
remove_node_alone(node) ==
    /\ node \in Nodes
    /\ g_nodes' = Without(g_nodes, node)
    /\ attrs' = [attrs EXCEPT !.n = Without(@, node)]
    /\ last' = Call("remove_node", [node |-> node], Ok(NULL))
    /\ nit' = Touched(nit)
    /\ eit' = Touched(eit)
    /\ UNCHANGED <<rt, desc, g_edges, seq, cap>>

\* Graph::remove_node
remove_node(node) ==
    LET r == agdelnode(node)
    IN /\ g_nodes' = r.nodes
       /\ g_edges' = r.edges
       /\ attrs' = r.attrs
       /\ last' = Call("remove_node", [node |-> node],
                       IF r.ret = 0 THEN Ok(NULL) ELSE Err("NodeCreationFailed"))
       /\ nit' = IF r.ret = 0 THEN Touched(nit) ELSE nit
       /\ eit' = IF r.ret = 0 THEN Touched(eit) ELSE eit
       /\ UNCHANGED <<rt, desc, seq, cap>>

\* Graph::remove_edge
remove_edge(edge) ==
    LET r == agdeledge(edge)
    IN /\ g_edges' = r.edges
       /\ attrs' = r.attrs
       /\ last' = Call("remove_edge", [edge |-> edge],
                       IF r.ret = 0 THEN Ok(NULL) ELSE Err("EdgeCreationFailed"))
       /\ nit' = IF r.ret = 0 THEN Touched(nit) ELSE nit
       /\ eit' = IF r.ret = 0 THEN Touched(eit) ELSE eit
       /\ UNCHANGED <<rt, desc, g_nodes, seq, cap>>

\* Graph::node_count / Graph::edge_count
node_count == agnnodes
edge_count == agnedges

\* ------------------------------------------------------------ iterator steps
\* One iterator is followed at a time: making one drops the other.
MakeNodes ==
    /\ nit' = GraphNodes
    /\ eit' = NoEdgeIter
    /\ last' = Call("nodes", [none |-> TRUE], Ok(NULL))
    /\ UNCHANGED <<rt, desc, g_nodes, g_edges, seq, cap, attrs>>

StepNodeIter ==
    /\ nit.live
    /\ \E r \in NodeIterNext(nit) :
          /\ nit' = r.it
          /\ last' = Call("NodeIter::next", [none |-> TRUE], Ok(r.ret))
    /\ UNCHANGED <<rt, desc, g_nodes, g_edges, seq, cap, attrs, eit>>

MakeEdges ==
    /\ eit' = GraphEdges
    /\ nit' = NoNodeIter
    /\ last' = Call("edges", [none |-> TRUE], Ok(NULL))
    /\ UNCHANGED <<rt, desc, g_nodes, g_edges, seq, cap, attrs>>

MakeOutEdges(node) ==
    /\ eit' = GraphOutEdges(node)
    /\ nit' = NoNodeIter
    /\ last' = Call("out_edges", [node |-> node], Ok(NULL))
    /\ UNCHANGED <<rt, desc, g_nodes, g_edges, seq, cap, attrs>>

MakeInEdges(node) ==
    /\ eit' = GraphInEdges(node)
    /\ nit' = NoNodeIter
    /\ last' = Call("in_edges", [node |-> node], Ok(NULL))
    /\ UNCHANGED <<rt, desc, g_nodes, g_edges, seq, cap, attrs>>

StepEdgeIter ==
    /\ eit.live
    /\ \E r \in EdgeIterNext(eit) :
          /\ eit' = r.it
          /\ last' = Call("EdgeIter::next", [none |-> TRUE], Ok(r.ret))
    /\ UNCHANGED <<rt, desc, g_nodes, g_edges, seq, cap, attrs, nit>>

\* ------------------------------------------------------------ native: attributes
\* The attribute state is [dict, g, n, e]: dict.g / dict.n / dict.e are the
\* root graph's attribute dictionaries per kind (declared name |-> default),
\* g is the graph's attribute record (name |-> value), n and e give the
\* record of each live node and edge.  Both halves of an edge share one record.
\* An attribute-carrying object is [id, type]; the graph itself is TheGraph.
TheGraph == [id |-> 1, type |-> AGRAPH]
AGEDGE == AGOUTEDGE

KindOf(obj) ==
    IF obj.type = AGRAPH THEN "g" ELSE IF obj.type = AGNODE THEN "n" ELSE "e"

\* agattrrec(obj)->str, by attribute name.
AttrRec(a, obj) ==
    IF obj.type = AGRAPH THEN a.g
    ELSE IF obj.type = AGNODE THEN a.n[obj.id] ELSE a.e[obj.id]

WithAttr(a, obj, name, value) ==
    IF obj.type = AGRAPH THEN [a EXCEPT !.g = (name :> value) @@ @]
    ELSE IF obj.type = AGNODE
    THEN [a EXCEPT !.n[obj.id] = (name :> value) @@ @]
    ELSE [a EXCEPT !.e[obj.id] = (name :> value) @@ @]

\* agxset(obj, sym, value): stores a copy of the C string at `value` in the
\* object's record; on the graph it updates the dictionary default as well.
\* It reports success (0).
agxset(a, obj, sym, value) ==
    LET set == WithAttr(a, obj, sym, CStr(value))
    IN [ret |-> 0,
        attrs |-> IF obj.type = AGRAPH
                  THEN [set EXCEPT !.dict.g = (sym :> CStr(value)) @@ @]
                  ELSE set]

\* agattr(g, kind, name, value) with a value: declares the attribute for the
\* kind, or replaces the default of one already declared.  A new declaration
\* gives the attribute, at the default, to every existing object of the kind
\* (unless the allocation fails: a null symbol); a graph attribute is then set
\* on the graph too.  The symbol returned is identified by the name.
agattr(a, type, name, value, alloc) ==
    LET k == KindOf([id |-> 0, type |-> type])
        nm == CStr(name)
        v == CStr(value)
        declared == nm \in DOMAIN a.dict[k]
        dict == [a EXCEPT !.dict[k] = (nm :> v) @@ @]
        spread ==
            IF k = "g" THEN [dict EXCEPT !.g = (nm :> v) @@ @]
            ELSE IF k = "n"
            THEN [dict EXCEPT !.n = [n \in DOMAIN @ |-> (nm :> v) @@ @[n]]]
            ELSE [dict EXCEPT !.e = [e \in DOMAIN @ |-> (nm :> v) @@ @[e]]]
        rv == IF declared THEN dict ELSE spread
    IN IF ~declared /\ ~alloc
       THEN [sym |-> None, attrs |-> a]
       ELSE [sym |-> Some(nm),
             attrs |-> IF k = "g" THEN agxset(rv, TheGraph, nm, value).attrs
                       ELSE rv]

\* agget(obj, name): a pointer to the object's value of the attribute (the
\* stored bytes and their terminator), or a null pointer (None) when no such
\* attribute is declared for the object's kind.
agget(a, obj, name) ==
    IF CStr(name) \in DOMAIN a.dict[KindOf(obj)]
    THEN Some(AttrRec(a, obj)[CStr(name)] \o <<0>>)
    ELSE None

\* ------------------------------------------------------------ AttributeContainer
\* Graph::set_attribute: the result and the attribute state afterwards.
Graph_set_attribute(a, name, value, alloc) ==
    LET cn == CStringNew(name)
        cv == CStringNew(value)
    IN IF ~cn.ok THEN [ret |-> Err(cn.err), attrs |-> a]
       ELSE IF ~cv.ok THEN [ret |-> Err(cv.err), attrs |-> a]
       ELSE LET s == agattr(a, AGRAPH, cn.val, cv.val, alloc)
            IN IF s.sym = None
               THEN [ret |-> Err("AttributeSetFailed"), attrs |-> s.attrs]
               ELSE LET r == agxset(s.attrs, TheGraph, s.sym[1], cv.val)
                    IN [ret |-> IF r.ret = 0 THEN Ok(NULL)
                                ELSE Err("AttributeSetFailed"),
                        attrs |-> r.attrs]

\* <Node as AttributeContainer>::set_attribute and
\* <Edge as AttributeContainer>::set_attribute: declare the attribute for the
\* kind with the default `dflt` (the empty string), then set the value on
\* this object alone.
Object_set_attribute(a, obj, type, name, value, alloc, dflt) ==
    LET cn == CStringNew(name)
        cv == CStringNew(value)
        empty_str == CStringNew(dflt)
    IN IF ~cn.ok THEN [ret |-> Err(cn.err), attrs |-> a]
       ELSE IF ~cv.ok THEN [ret |-> Err(cv.err), attrs |-> a]
       ELSE IF ~empty_str.ok THEN [ret |-> Err(empty_str.err), attrs |-> a]
       ELSE LET s == agattr(a, type, cn.val, empty_str.val, alloc)
            IN IF s.sym = None
               THEN [ret |-> Err("AttributeSetFailed"), attrs |-> s.attrs]
               ELSE LET r == agxset(s.attrs, obj, s.sym[1], cv.val)
                    IN [ret |-> IF r.ret = 0 THEN Ok(NULL)
                                ELSE Err("AttributeSetFailed"),
                        attrs |-> r.attrs]

\* A set_attribute that stores the value as the kind's default and leaves the
\* object's own value alone.
Node_set_attribute_default(a, node, name, value, alloc) ==
    LET r == Object_set_attribute(a, node, AGNODE, name, <<>>, alloc, value)
    IN IF HasNul(value) THEN [ret |-> Err(FromNulError), attrs |-> a] ELSE r

\* A set_attribute that declares the attribute with the value as the kind's
\* default, and sets it on the node.
Node_set_attribute_spread(a, node, name, value, alloc) ==
    LET r == Object_set_attribute(a, node, AGNODE, name, value, alloc, value)
    IN IF HasNul(value) THEN [ret |-> Err(FromNulError), attrs |-> a] ELSE r

Node_set_attribute(a, node, name, value, alloc) ==
    Object_set_attribute(a, node, AGNODE, name, value, alloc, <<>>)

Edge_set_attribute(a, edge, name, value, alloc) ==
    Object_set_attribute(a, edge, AGEDGE, name, value, alloc, <<>>)

\* set_attribute / get_attribute of the container `obj`, by its impl.
set_attribute(a, obj, name, value, alloc) ==
    IF obj.type = AGRAPH THEN Graph_set_attribute(a, name, value, alloc)
    ELSE IF obj.type = AGNODE THEN Node_set_attribute(a, obj, name, value, alloc)
    ELSE Edge_set_attribute(a, obj, name, value, alloc)

\* Graph::get_attribute and the two impls' get_attribute (the same body):
\* Ok(None) for a null pointer, otherwise the string at the pointer.
get_attribute(a, obj, name) ==
    LET cn == CStringNew(name)
    IN IF ~cn.ok THEN [Err(cn.err) EXCEPT !.val = None]
       ELSE LET value == agget(a, obj, cn.val)
            IN IF value = None THEN Ok(None)
               ELSE LET value_str == to_str(CStr(value[1]))
                    IN IF value_str.ok THEN Ok(Some(value_str.val))
                       ELSE [Err(value_str.err) EXCEPT !.val = None]

\* A has_attribute that takes an empty value for an absent attribute.
has_attribute_nonempty(a, obj, name) ==
    LET g == get_attribute(a, obj, name)
    IN IF g.ok THEN Ok(g.val # None /\ g.val # Some(<<>>))
       ELSE [Err(g.err) EXCEPT !.val = FALSE]

\* AttributeContainer::has_attribute
has_attribute(a, obj, name) ==
    LET g == get_attribute(a, obj, name)
    IN IF g.ok THEN Ok(g.val # None) ELSE [Err(g.err) EXCEPT !.val = FALSE]

\* A set_attribute_if_absent that sets whether the attribute is there or not.
set_attribute_if_absent_always(a, obj, name, value, alloc) ==
    set_attribute(a, obj, name, value, alloc)

\* AttributeContainer::set_attribute_if_absent
set_attribute_if_absent(a, obj, name, value, alloc) ==
    LET h == has_attribute(a, obj, name)
    IN IF ~h.ok THEN [ret |-> Err(h.err), attrs |-> a]
       ELSE IF ~h.val THEN set_attribute(a, obj, name, value, alloc)
       ELSE [ret |-> Ok(NULL), attrs |-> a]

\* A remove_attribute that does not look whether the attribute is there.
remove_attribute_always(a, obj, name, alloc) ==
    set_attribute(a, obj, name, <<>>, alloc)

\* AttributeContainer::remove_attribute
remove_attribute(a, obj, name, alloc) ==
    LET h == has_attribute(a, obj, name)
    IN IF ~h.ok THEN [ret |-> Err(h.err), attrs |-> a]
       ELSE IF h.val THEN set_attribute(a, obj, name, <<>>, alloc)
       ELSE [ret |-> Ok(NULL), attrs |-> a]

\* The calls, as steps of the program.
CallSetAttribute(obj, name, value, alloc) ==
    LET r == set_attribute(attrs, obj, name, value, alloc)
    IN /\ attrs' = r.attrs
       /\ last' = Call("set_attribute",
                       [obj |-> obj, name |-> name, value |-> value], r.ret)
       /\ UNCHANGED <<rt, desc, g_nodes, g_edges, seq, cap, nit, eit>>

CallGetAttribute(obj, name) ==
    /\ last' = Call("get_attribute", [obj |-> obj, name |-> name],
                    get_attribute(attrs, obj, name))
    /\ UNCHANGED <<rt, desc, g_nodes, g_edges, seq, cap, attrs, nit, eit>>

CallHasAttribute(obj, name) ==
    /\ last' = Call("has_attribute", [obj |-> obj, name |-> name],
                    has_attribute(attrs, obj, name))
    /\ UNCHANGED <<rt, desc, g_nodes, g_edges, seq, cap, attrs, nit, eit>>

CallSetAttributeIfAbsent(obj, name, value, alloc) ==
    LET r == set_attribute_if_absent(attrs, obj, name, value, alloc)
    IN /\ attrs' = r.attrs
       /\ last' = Call("set_attribute_if_absent",
                       [obj |-> obj, name |-> name, value |-> value,
                        was |-> get_attribute(attrs, obj, name)], r.ret)
       /\ UNCHANGED <<rt, desc, g_nodes, g_edges, seq, cap, nit, eit>>

CallRemoveAttribute(obj, name, alloc) ==
    LET r == remove_attribute(attrs, obj, name, alloc)
    IN /\ attrs' = r.attrs
       /\ last' = Call("remove_attribute",
                       [obj |-> obj, name |-> name,
                        was |-> get_attribute(attrs, obj, name)], r.ret)
       /\ UNCHANGED <<rt, desc, g_nodes, g_edges, seq, cap, nit, eit>>

\* ------------------------------------------------------------ specification
\* A handle as agopen returns it, in the hands of the Graph value that owns
\* it (see the ownership section).
Opened(d) == [closes |-> 0, owner |-> TRUE, views |-> 0,
              onode |-> FALSE, vnode |-> FALSE, desc |-> d]

NoAttrs == [dict |-> [g |-> <<>>, n |-> <<>>, e |-> <<>>],
            g |-> <<>>, n |-> <<>>, e |-> <<>>]

\* The state Graph::new_with_strictness(name, directed, strict) leaves: an
\* empty graph of that kind.
Init ==
    /\ desc \in [directed : BOOLEAN, strict : BOOLEAN]
    /\ g_nodes = <<>>
    /\ g_edges = <<>>
    /\ seq = [node |-> 0, edge |-> 0]
    /\ cap = [node |-> MaxNodes, edge |-> MaxEdges]
    /\ attrs = NoAttrs
    /\ last = Call("new", [none |-> TRUE], Ok(NULL))
    /\ nit = NoNodeIter
    /\ eit = NoEdgeIter
    /\ rt = <<Opened(desc)>>

Next ==
    \/ \E name \in NodeNames : \E alloc \in NodeAlloc : add_node(name, alloc) /\ WithinCap
    \/ \E name \in NodeNames : get_node(name)
    \/ \E from \in Nodes, to \in Nodes, name \in EdgeNames :
          \E alloc \in EdgeAlloc : add_edge(from, to, name, alloc) /\ WithinCap
    \/ \E from \in Nodes, to \in Nodes : find_edge(from, to)
    \/ \E node \in Nodes \cup {ForeignNode} : remove_node(node)
    \/ \E edge \in Handles \cup {ForeignEdge} : remove_edge(edge)

Spec == Init /\ [][Next]_vars

\* Dropping the iterator.
DropIter ==
    /\ nit.live \/ eit.live
    /\ nit' = NoNodeIter
    /\ eit' = NoEdgeIter
    /\ last' = Call("drop", [none |-> TRUE], Ok(NULL))
    /\ UNCHANGED <<rt, desc, g_nodes, g_edges, seq, cap, attrs>>

\* The graph layer with its iterators: the graph is built and changed while
\* no iterator is live, and walked by one NodeIter or EdgeIter at a time.
AtRest == ~nit.live /\ ~eit.live

NextIter ==
    \/ AtRest /\ \E name \in IterNodeNames : \E alloc \in NodeAlloc : add_node(name, alloc) /\ WithinCap
    \/ AtRest /\ \E from \in Nodes, to \in Nodes, name \in IterEdgeNames :
          \E alloc \in EdgeAlloc : add_edge(from, to, name, alloc) /\ WithinCap
    \/ AtRest /\ \E node \in Nodes : remove_node(node)
    \/ AtRest /\ \E edge \in Handles : remove_edge(edge)
    \/ MakeNodes
    \/ StepNodeIter
    \/ MakeEdges
    \/ \E node \in Nodes : MakeOutEdges(node)
    \/ \E node \in Nodes : MakeInEdges(node)
    \/ StepEdgeIter
    \/ DropIter

SpecIter == Init /\ [][NextIter]_vars

\* The attribute layer: a graph of up to MaxAttrNodes nodes and MaxAttrEdges
\* edges (loops: the attribute calls do not look at an edge's ends), and the
\* set_attribute, get_attribute and remove_attribute calls on the graph, its
\* nodes and its edges.
MaxAttrNodes == 1
MaxAttrEdges == 1
ValV == <<118>>
AttrNodeNames == {NameA, NameB}
AttrNames == {KeyX, NameNul}
AttrPairs == {<<KeyX, <<>>>>, <<KeyX, ValV>>, <<KeyX, NameNul>>, <<NameNul, ValV>>}
Objects ==
    {TheGraph} \cup {[id |-> n, type |-> AGNODE] : n \in Nodes}
        \cup {MkOut(e) : e \in Edges}

InitAttr ==
    /\ desc = [directed |-> TRUE, strict |-> FALSE]
    /\ g_nodes = <<>>
    /\ g_edges = <<>>
    /\ seq = [node |-> 0, edge |-> 0]
    /\ cap = [node |-> MaxAttrNodes, edge |-> MaxAttrEdges]
    /\ attrs = NoAttrs
    /\ last = Call("new", [none |-> TRUE], Ok(NULL))
    /\ nit = NoNodeIter
    /\ eit = NoEdgeIter
    /\ rt = <<Opened(desc)>>

\* The native allocation a call may need: declaring an attribute allocates
\* (and may be refused), a call on a declared one allocates nothing.
AttrAlloc(obj, name) ==
    IF HasNul(name) \/ name \in DOMAIN attrs.dict[KindOf(obj)]
    THEN {TRUE} ELSE BOOLEAN

NextAttr ==
    \/ \E name \in AttrNodeNames : \E alloc \in NodeAlloc : add_node(name, alloc) /\ WithinCap
    \/ \E node \in Nodes :
          \E alloc \in EdgeAlloc : add_edge(node, node, None, alloc) /\ WithinCap
    \/ \E obj \in Objects, p \in AttrPairs :
          \E alloc \in AttrAlloc(obj, p[1]) :
             CallSetAttribute(obj, p[1], p[2], alloc)
    \/ \E obj \in Objects, name \in AttrNames : CallGetAttribute(obj, name)
    \/ \E obj \in Objects, name \in AttrNames :
          \E alloc \in AttrAlloc(obj, name) : CallRemoveAttribute(obj, name, alloc)

SpecAttr == InitAttr /\ [][NextAttr]_vars

\* The attribute layer again, for what is present where: the same graph, with
\* the set_attribute, set_attribute_if_absent, get_attribute and
\* has_attribute calls.
\* What set_attribute_if_absent is called with.
AbsentPairs == {<<KeyX, ValV>>, <<KeyX, NameNul>>, <<NameNul, ValV>>}

\* How many nodes and edges, taken together, the presence of attributes is
\* followed on.
MaxHeld == 2
WithinHeld == WithinCap /\ seq'.node + seq'.edge <= MaxHeld

NextPresence ==
    \/ \E name \in AttrNodeNames : \E alloc \in NodeAlloc : add_node(name, alloc) /\ WithinHeld
    \/ \E node \in Nodes :
          \E alloc \in EdgeAlloc : add_edge(node, node, None, alloc) /\ WithinHeld
    \/ \E obj \in Objects, p \in AttrPairs :
          \E alloc \in AttrAlloc(obj, p[1]) :
             CallSetAttribute(obj, p[1], p[2], alloc)
    \/ \E obj \in Objects, p \in AbsentPairs :
          \E alloc \in AttrAlloc(obj, p[1]) :
             CallSetAttributeIfAbsent(obj, p[1], p[2], alloc)
    \/ \E obj \in Objects, name \in AttrNames : CallGetAttribute(obj, name)
    \/ \E obj \in Objects, name \in AttrNames : CallHasAttribute(obj, name)

SpecPresence == InitAttr /\ [][NextPresence]_vars


\* ------------------------------------------------------------ ownership
\* rt is the sequence of native graph handles agopen has returned (a handle
\* is its index).  For each: how often agclose was called on it, whether the
\* Graph value that owns it is alive, how many non-owning Graph values (from
\* Node::graph) are alive, and whether a Node that borrows the owner, and one
\* that borrows a view, is alive (one Node per Graph value is followed at a
\* time).  A Graph value is [inner, owned].
\* agopen(name, desc, NULL): a new handle, unless the allocation fails.
agopen(r, name, d, alloc) ==
    IF alloc THEN [ret |-> Len(r) + 1, rt |-> Append(r, Opened(d))]
    ELSE [ret |-> NULL, rt |-> r]

\* agclose(g)
agclose(r, g) == [r EXCEPT ![g].closes = @ + 1]

\* A drop that releases whatever the value points to.
drop_any(r, self) ==
    IF self.inner # NULL THEN agclose(r, self.inner) ELSE r

\* <Graph as Drop>::drop
drop(r, self) ==
    IF self.owned /\ self.inner # NULL THEN agclose(r, self.inner) ELSE r

\* Graph::new_with_strictness: the result (the handle of the Graph made) and
\* the handles afterwards.
new_with_strictness(r, name, directed, strict, alloc) ==
    LET c == CStringNew(name)
        d == [directed |-> directed, strict |-> strict]
    IN IF ~c.ok THEN [ret |-> Err(c.err), rt |-> r]
       ELSE LET o == agopen(r, c.val, d, alloc)
            IN IF o.ret = NULL
               THEN [ret |-> Err("GraphCreationFailed"), rt |-> r]
               ELSE [ret |-> Ok(o.ret), rt |-> o.rt]

\* Graph::new: the same with the non-strict descriptors.
new(r, name, directed, alloc) ==
    LET c == CStringNew(name)
        d == [directed |-> directed, strict |-> FALSE]
    IN IF ~c.ok THEN [ret |-> Err(c.err), rt |-> r]
       ELSE LET o == agopen(r, c.val, d, alloc)
            IN IF o.ret = NULL
               THEN [ret |-> Err("GraphCreationFailed"), rt |-> r]
               ELSE [ret |-> Ok(o.ret), rt |-> o.rt]

\* The loop of GraphBuilder::build over the staged attributes (a HashMap:
\* any order), stopping at the first set_attribute that fails: the results
\* it may end with.
RECURSIVE ApplyStaged(_, _, _)
ApplyStaged(a, staged, alloc) ==
    IF staged = {} THEN {Ok(NULL)}
    ELSE UNION {LET r == Graph_set_attribute(a, p[1], p[2], alloc)
                IN IF r.ret.ok THEN ApplyStaged(r.attrs, staged \ {p}, alloc)
                   ELSE {r.ret} : p \in staged}

\* What reaching the handle of a Graph value finds.
Released(self) == rt[self.inner].closes > 0

\* The Graph values alive, and those the borrow checker lets go out of scope
\* (no Node borrows them).
Values ==
    {[inner |-> g, owned |-> TRUE] : g \in {h \in DOMAIN rt : rt[h].owner}}
    \cup {[inner |-> g, owned |-> FALSE] : g \in {h \in DOMAIN rt : rt[h].views > 0}}

Droppable ==
    {v \in Values :
        IF v.owned THEN ~rt[v.inner].onode
        ELSE ~rt[v.inner].vnode \/ rt[v.inner].views > 1}

\* The bounds of the ownership layer.
MaxGraphs == 1
MaxViews == 1
GraphAlloc == IF Len(rt) < MaxGraphs THEN BOOLEAN ELSE {FALSE}
GraphNames == {NameA, NameNul}
Staged == {{}, {<<KeyX, ValV>>}, {<<KeyX, ValV>>, <<NameNul, ValV>>}}

LifeUnchanged == UNCHANGED <<desc, g_nodes, g_edges, seq, cap, attrs, nit, eit>>

CallNew(name, directed, alloc) ==
    LET r == new(rt, name, directed, alloc)
    IN /\ rt' = r.rt
       /\ last' = Call("Graph::new",
                       [name |-> name, alloc |-> alloc, handles |-> Len(rt),
                        desc |-> [directed |-> directed, strict |-> FALSE]], r.ret)
       /\ LifeUnchanged

CallNewWithStrictness(name, directed, strict, alloc) ==
    LET r == new_with_strictness(rt, name, directed, strict, alloc)
    IN /\ rt' = r.rt
       /\ last' = Call("Graph::new_with_strictness",
                       [name |-> name, alloc |-> alloc, handles |-> Len(rt),
                        desc |-> [directed |-> directed, strict |-> strict]], r.ret)
       /\ LifeUnchanged

\* GraphBuilder::build: the graph, then the staged attributes; an attribute
\* that fails returns the error, and the graph, a local by then, is dropped.
build(name, directed, strict, staged, alloc, attralloc) ==
    LET r == new_with_strictness(rt, name, directed, strict, alloc)
        arg == [name |-> name, alloc |-> alloc, handles |-> Len(rt),
                staged |-> staged]
    IN IF ~r.ret.ok
       THEN /\ rt' = r.rt
            /\ last' = Call("GraphBuilder::build", arg, r.ret)
            /\ LifeUnchanged
       ELSE \E res \in ApplyStaged(NoAttrs, staged, attralloc) :
               /\ rt' = IF res.ok THEN r.rt
                        ELSE [drop(r.rt, [inner |-> r.ret.val, owned |-> TRUE])
                                 EXCEPT ![r.ret.val].owner = FALSE]
               /\ last' = Call("GraphBuilder::build", arg,
                               IF res.ok THEN r.ret ELSE res)
               /\ LifeUnchanged

\* A call through a Graph value that reaches its handle and hands out
\* nothing that borrows (node_count, say).
GraphUse(self) ==
    /\ last' = Call("node_count", [self |-> self, released |-> Released(self)],
                    Ok(NULL))
    /\ UNCHANGED rt
    /\ LifeUnchanged

\* Graph::add_node through a Graph value: the Node it returns borrows the
\* value.
GraphAddNode(self) ==
    /\ IF self.owned THEN ~rt[self.inner].onode ELSE ~rt[self.inner].vnode
    /\ rt' = IF self.owned THEN [rt EXCEPT ![self.inner].onode = TRUE]
             ELSE [rt EXCEPT ![self.inner].vnode = TRUE]
    /\ last' = Call("Graph::add_node",
                    [self |-> self, released |-> Released(self)], Ok(NULL))
    /\ LifeUnchanged

\* Node::graph on a Node that borrows `self`: a Graph value of the same
\* handle that owns nothing and borrows nothing.
NodeGraph(self) ==
    /\ IF self.owned THEN rt[self.inner].onode ELSE rt[self.inner].vnode
    /\ rt[self.inner].views < MaxViews
    /\ rt' = [rt EXCEPT ![self.inner].views = @ + 1]
    /\ last' = Call("Node::graph",
                    [self |-> self, released |-> Released(self)], Ok(NULL))
    /\ LifeUnchanged

\* A Node that borrows `self` goes out of scope.
NodeDrop(self) ==
    /\ IF self.owned THEN rt[self.inner].onode ELSE rt[self.inner].vnode
    /\ rt' = IF self.owned THEN [rt EXCEPT ![self.inner].onode = FALSE]
             ELSE [rt EXCEPT ![self.inner].vnode = FALSE]
    /\ last' = Call("Node::drop", [self |-> self], Ok(NULL))
    /\ LifeUnchanged

\* A Graph value goes out of scope.
GraphDrop(self) ==
    /\ rt' = IF self.owned
             THEN [drop(rt, self) EXCEPT ![self.inner].owner = FALSE]
             ELSE [drop(rt, self) EXCEPT ![self.inner].views = @ - 1]
    /\ last' = Call("Graph::drop", [self |-> self], Ok(NULL))
    /\ LifeUnchanged

\* The program before it has made a graph.
InitLife ==
    /\ desc = [directed |-> TRUE, strict |-> FALSE]
    /\ g_nodes = <<>>
    /\ g_edges = <<>>
    /\ seq = [node |-> 0, edge |-> 0]
    /\ cap = [node |-> 0, edge |-> 0]
    /\ attrs = NoAttrs
    /\ last = Call("main", [none |-> TRUE], Ok(NULL))
    /\ nit = NoNodeIter
    /\ eit = NoEdgeIter
    /\ rt = <<>>

NextLife ==
    \/ \E name \in GraphNames, directed \in BOOLEAN :
          \E alloc \in GraphAlloc : CallNew(name, directed, alloc)
    \/ \E name \in GraphNames, directed \in BOOLEAN, strict \in BOOLEAN :
          \E alloc \in GraphAlloc :
             CallNewWithStrictness(name, directed, strict, alloc)
    \/ \E name \in GraphNames, staged \in Staged :
          \E alloc \in GraphAlloc, attralloc \in BOOLEAN :
             build(name, TRUE, FALSE, staged, alloc, attralloc)
    \/ \E self \in Values : GraphUse(self)
    \/ \E self \in Values : GraphAddNode(self)
    \/ \E self \in Values : NodeGraph(self)
    \/ \E self \in Values : NodeDrop(self)
    \/ \E self \in Droppable : GraphDrop(self)

SpecLife == InitLife /\ [][NextLife]_vars

\* ------------------------------------------------------------ builders
\* A builder is the record of its fields; `attributes` is the HashMap, a
\* function from the names staged to their values.
KeyY == <<121>>
ValW == <<119>>

\* NodeBuilder::new, EdgeBuilder::new, GraphBuilder::new
NodeBuilder_new(name) == [name |-> name, attributes |-> <<>>]
EdgeBuilder_new(from, to, name) ==
    [from |-> from, to |-> to, name |-> name, attributes |-> <<>>]
GraphBuilder_new_undirected(name) ==
    [name |-> name, directed |-> FALSE, strict |-> FALSE, attributes |-> <<>>]

GraphBuilder_new(name) ==
    [name |-> name, directed |-> TRUE, strict |-> FALSE, attributes |-> <<>>]

\* GraphBuilder::directed / GraphBuilder::strict
directed(self, d) == [self EXCEPT !.directed = d]
strict(self, st) == [self EXCEPT !.strict = st]

\* An attribute() that keeps the value a name was first staged with.
attribute_first(self, name, value) ==
    [self EXCEPT !.attributes = @ @@ (name :> value)]

\* NodeBuilder::attribute, EdgeBuilder::attribute, GraphBuilder::attribute:
\* HashMap::insert, which replaces the value of a name already staged.
attribute(self, name, value) ==
    [self EXCEPT !.attributes = (name :> value) @@ @]

\* A chain of calls on a builder: b.attribute(n1, v1).attribute(n2, v2)...,
\* and b.directed(d).strict(s)...
RECURSIVE AttributeCalls(_, _)
AttributeCalls(self, calls) ==
    IF calls = <<>> THEN self
    ELSE AttributeCalls(attribute(self, Head(calls)[1], Head(calls)[2]), Tail(calls))

RECURSIVE FlagCalls(_, _)
FlagCalls(self, calls) ==
    IF calls = <<>> THEN self
    ELSE FlagCalls(IF Head(calls).f = "directed" THEN directed(self, Head(calls).v)
                   ELSE strict(self, Head(calls).v),
                   Tail(calls))

\* The native allocation a set_attribute may need in the attribute state a.
DeclAlloc(a, obj, name) ==
    IF HasNul(name) \/ name \in DOMAIN a.dict[KindOf(obj)] THEN {TRUE} ELSE BOOLEAN

\* A loop that goes on after a set_attribute failed, and returns the first
\* error in the end.
RECURSIVE ForAttributes_all(_, _, _, _)
ForAttributes_all(a, obj, attributes, applied) ==
    IF DOMAIN attributes = {}
    THEN {[ret |-> Ok(NULL), attrs |-> a, applied |-> applied, failed |-> None]}
    ELSE UNION {UNION {
            LET r == set_attribute(a, obj, name, attributes[name], alloc)
                rest == ForAttributes_all(r.attrs, obj, Without(attributes, name),
                                          IF r.ret.ok THEN Append(applied, name)
                                          ELSE applied)
            IN IF r.ret.ok THEN rest
               ELSE {[o EXCEPT !.ret = r.ret, !.failed = Some(name),
                               !.applied = applied] : o \in rest}
            : alloc \in DeclAlloc(a, obj, name)} : name \in DOMAIN attributes}

\* `for (name, value) in self.attributes { obj.set_attribute(&name, &value)?; }`
\* A HashMap is walked in an order of its own, and the `?` returns at the
\* first failure: the outcomes the loop may have, each with the result, the
\* attribute state, the names applied (in the order taken) and the name that
\* failed.
RECURSIVE ForAttributes(_, _, _, _)
ForAttributes(a, obj, attributes, applied) ==
    IF DOMAIN attributes = {}
    THEN {[ret |-> Ok(NULL), attrs |-> a, applied |-> applied, failed |-> None]}
    ELSE UNION {UNION {
            LET r == set_attribute(a, obj, name, attributes[name], alloc)
            IN IF r.ret.ok
               THEN ForAttributes(r.attrs, obj, Without(attributes, name),
                                  Append(applied, name))
               ELSE {[ret |-> r.ret, attrs |-> r.attrs, applied |-> applied,
                      failed |-> Some(name)]}
            : alloc \in DeclAlloc(a, obj, name)} : name \in DOMAIN attributes}

\* What a build leaves in `last`: how the builder was staged, what the loop
\* applied and where it failed.
Built(self, calls, o) ==
    [self |-> self, calls |-> calls, applied |-> o.applied, failed |-> o.failed]
NotLooped == [applied |-> <<>>, failed |-> None]

\* NodeBuilder::build: add_node, then the loop over the staged attributes.
NodeBuilder_build(self, calls, alloc) ==
    LET c == CStringNew(self.name)
    IN IF ~c.ok
       THEN /\ last' = Call("NodeBuilder::build", Built(self, calls, NotLooped),
                            Err(c.err))
            /\ UNCHANGED <<rt, desc, g_nodes, g_edges, seq, cap, attrs, nit, eit>>
       ELSE LET r == agnode(c.val, 1, alloc)
            IN IF r.ret = NULL
               THEN /\ last' = Call("NodeBuilder::build",
                                    Built(self, calls, NotLooped),
                                    Err("NodeCreationFailed"))
                    /\ UNCHANGED <<rt, desc, g_nodes, g_edges, seq, cap, attrs,
                                   nit, eit>>
               ELSE \E o \in ForAttributes(r.attrs, [id |-> r.ret, type |-> AGNODE],
                                           self.attributes, <<>>) :
                       /\ g_nodes' = r.nodes
                       /\ seq' = r.seq
                       /\ attrs' = o.attrs
                       /\ last' = Call("NodeBuilder::build",
                                       Built(self, calls, o),
                                       IF o.ret.ok THEN Ok(r.ret) ELSE o.ret)
                       /\ nit' = IF r.nodes # g_nodes THEN Touched(nit) ELSE nit
                       /\ eit' = IF r.nodes # g_nodes THEN Touched(eit) ELSE eit
                       /\ UNCHANGED <<rt, desc, g_edges, cap>>

\* EdgeBuilder::build: add_edge, then the loop over the staged attributes.
EdgeBuilder_build(self, calls, alloc) ==
    LET c == OptCString(self.name)
    IN IF ~c.ok
       THEN /\ last' = Call("EdgeBuilder::build", Built(self, calls, NotLooped),
                            [Err(c.err) EXCEPT !.val = NULLE])
            /\ UNCHANGED <<rt, desc, g_nodes, g_edges, seq, cap, attrs, nit, eit>>
       ELSE \E r \in agedge(self.from, self.to, c.val, 1, alloc) :
               IF r.ret = NULLE
               THEN /\ last' = Call("EdgeBuilder::build",
                                    Built(self, calls, NotLooped),
                                    [Err("EdgeCreationFailed") EXCEPT !.val = NULLE])
                    /\ UNCHANGED <<rt, desc, g_nodes, g_edges, seq, cap, attrs,
                                   nit, eit>>
               ELSE \E o \in ForAttributes(r.attrs, r.ret, self.attributes, <<>>) :
                       /\ g_edges' = r.edges
                       /\ seq' = r.seq
                       /\ attrs' = o.attrs
                       /\ last' = Call("EdgeBuilder::build",
                                       Built(self, calls, o),
                                       IF o.ret.ok THEN Ok(r.ret)
                                       ELSE [o.ret EXCEPT !.val = NULLE])
                       /\ nit' = IF r.edges # g_edges THEN Touched(nit) ELSE nit
                       /\ eit' = IF r.edges # g_edges THEN Touched(eit) ELSE eit
                       /\ UNCHANGED <<rt, desc, g_nodes, cap>>

\* No Graph is alive / the Graph the tables belong to is alive.
NoGraph == \A g \in DOMAIN rt : ~rt[g].owner
Live == \E g \in DOMAIN rt : rt[g].owner

\* agisdirected / agisstrict read the descriptor agopen stored in the graph.
is_directed == desc.directed
is_strict == desc.strict

\* Graph::new and Graph::new_with_strictness making the graph of the tables.
GraphNew(name, d, alloc) ==
    LET r == new(rt, name, d, alloc)
    IN /\ NoGraph
       /\ rt' = r.rt
       /\ desc' = IF r.ret.ok THEN r.rt[r.ret.val].desc ELSE desc
       /\ last' = Call("Graph::new",
                       [name |-> name, alloc |-> alloc, handles |-> Len(rt),
                        desc |-> [directed |-> d, strict |-> FALSE]], r.ret)
       /\ UNCHANGED <<g_nodes, g_edges, seq, cap, attrs, nit, eit>>

GraphNewWithStrictness(name, d, st, alloc) ==
    LET r == new_with_strictness(rt, name, d, st, alloc)
    IN /\ NoGraph
       /\ rt' = r.rt
       /\ desc' = IF r.ret.ok THEN r.rt[r.ret.val].desc ELSE desc
       /\ last' = Call("Graph::new_with_strictness",
                       [name |-> name, alloc |-> alloc, handles |-> Len(rt),
                        desc |-> [directed |-> d, strict |-> st]], r.ret)
       /\ UNCHANGED <<g_nodes, g_edges, seq, cap, attrs, nit, eit>>

\* GraphBuilder::build making the graph of the tables: new_with_strictness
\* with the staged flags, then the loop over the staged attributes; when the
\* loop fails the graph, a local, is dropped.
GraphBuilder_build(self, flags, calls, alloc) ==
    LET r == new_with_strictness(rt, self.name, self.directed, self.strict, alloc)
        arg(o) == [self |-> self, calls |-> calls, flags |-> flags,
                   alloc |-> alloc, handles |-> Len(rt),
                   applied |-> o.applied, failed |-> o.failed]
    IN /\ NoGraph
       /\ IF ~r.ret.ok
          THEN /\ rt' = r.rt
               /\ last' = Call("GraphBuilder::build", arg(NotLooped), r.ret)
               /\ UNCHANGED <<desc, attrs>>
          ELSE \E o \in ForAttributes(NoAttrs, TheGraph, self.attributes, <<>>) :
                  /\ rt' = IF o.ret.ok THEN r.rt
                           ELSE [drop(r.rt, [inner |-> r.ret.val, owned |-> TRUE])
                                    EXCEPT ![r.ret.val].owner = FALSE]
                  /\ desc' = IF o.ret.ok THEN r.rt[r.ret.val].desc ELSE desc
                  /\ attrs' = IF o.ret.ok THEN o.attrs ELSE attrs
                  /\ last' = Call("GraphBuilder::build", arg(o),
                                  IF o.ret.ok THEN r.ret ELSE o.ret)
       /\ UNCHANGED <<g_nodes, g_edges, seq, cap, nit, eit>>

\* The chains of calls the builders are staged with.
AttrCalls ==
    {<<>>,
     <<<<KeyX, ValV>>, <<KeyY, ValW>>>>,
     <<<<KeyY, ValW>>, <<KeyX, ValV>>>>,
     <<<<KeyX, ValV>>, <<KeyX, ValW>>>>,
     <<<<KeyX, ValV>>, <<NameNul, ValW>>>>}
FlagStaging ==
    {<<>>,
     <<[f |-> "directed", v |-> FALSE]>>,
     <<[f |-> "strict", v |-> TRUE]>>,
     <<[f |-> "strict", v |-> TRUE], [f |-> "directed", v |-> FALSE],
       [f |-> "strict", v |-> FALSE]>>}

\* How many nodes and edges, taken together, the builders may make.
MaxBuilt == 2
WithinBuilt == seq'.node + seq'.edge <= MaxBuilt

\* The program before it has made a graph, with room for the nodes and edges
\* of the graph to come.
InitBuild ==
    /\ desc = [directed |-> TRUE, strict |-> FALSE]
    /\ g_nodes = <<>>
    /\ g_edges = <<>>
    /\ seq = [node |-> 0, edge |-> 0]
    /\ cap = [node |-> MaxBuilt, edge |-> MaxBuilt]
    /\ attrs = NoAttrs
    /\ last = Call("main", [none |-> TRUE], Ok(NULL))
    /\ nit = NoNodeIter
    /\ eit = NoEdgeIter
    /\ rt = <<>>

\* A graph made by its builder, then filled through the node and edge
\* builders.
NextBuild ==
    \/ \E name \in GraphNames, calls \in AttrCalls :
          \E alloc \in GraphAlloc :
             GraphBuilder_build(AttributeCalls(GraphBuilder_new(name), calls),
                                <<>>, calls, alloc)
    \/ Live /\ \E name \in AttrNodeNames, calls \in AttrCalls :
          \E alloc \in NodeAlloc :
             /\ NodeNamed(name) = NULL
             /\ NodeBuilder_build(AttributeCalls(NodeBuilder_new(name), calls),
                                  calls, alloc)
             /\ WithinBuilt
    \/ Live /\ \E node \in Nodes, calls \in AttrCalls :
          \E alloc \in EdgeAlloc :
             /\ EdgeBuilder_build(
                   AttributeCalls(EdgeBuilder_new(node, node, None), calls),
                   calls, alloc)
             /\ WithinBuilt

SpecBuild == InitBuild /\ [][NextBuild]_vars

\* ------------------------------------------------------------ edge handles
\* Edge::from_node called on the handle the program was just given: the
\* one add_edge or find_edge returned, or the one an EdgeIter yielded.
HandleGiven ==
    /\ last.op \in {"add_edge", "find_edge", "EdgeIter::next"}
    /\ last.ret.ok
    /\ last.ret.val # NULLE

GivenBy ==
    IF last.op # "EdgeIter::next" THEN last.op
    ELSE IF eit.node = NULL THEN "edges"
    ELSE IF eit.outgoing THEN "out_edges" ELSE "in_edges"

CallFromNode ==
    /\ HandleGiven
    /\ \E n \in from_node(last.ret.val) :
          last' = Call("from_node", [edge |-> last.ret.val, by |-> GivenBy], Ok(n))
    /\ UNCHANGED <<rt, desc, g_nodes, g_edges, seq, cap, attrs, nit, eit>>

NextHandles ==
    \/ AtRest /\ \E name \in AttrNodeNames :
          \E alloc \in NodeAlloc : add_node(name, alloc) /\ WithinCap
    \/ AtRest /\ \E from \in Nodes, to \in Nodes :
          \E alloc \in EdgeAlloc : add_edge(from, to, None, alloc) /\ WithinCap
    \/ \E from \in Nodes, to \in Nodes : find_edge(from, to)
    \/ MakeEdges
    \/ \E node \in Nodes : MakeOutEdges(node)
    \/ \E node \in Nodes : MakeInEdges(node)
    \/ StepEdgeIter
    \/ DropIter
    \/ CallFromNode

SpecHandles == Init /\ [][NextHandles]_vars

\* ------------------------------------------------------------ graph kind
\* A graph made in one of the three ways, then read and changed through
\* every method that reaches its tables.
CallIsDirected ==
    /\ last' = Call("is_directed", [none |-> TRUE], Ok(is_directed))
    /\ UNCHANGED <<rt, desc, g_nodes, g_edges, seq, cap, attrs, nit, eit>>

CallIsStrict ==
    /\ last' = Call("is_strict", [none |-> TRUE], Ok(is_strict))
    /\ UNCHANGED <<rt, desc, g_nodes, g_edges, seq, cap, attrs, nit, eit>>

KindPairs == {<<KeyX, ValV>>, <<NameNul, ValV>>}

InitKind ==
    /\ desc = [directed |-> TRUE, strict |-> FALSE]
    /\ g_nodes = <<>>
    /\ g_edges = <<>>
    /\ seq = [node |-> 0, edge |-> 0]
    /\ cap = [node |-> MaxNodes, edge |-> MaxEdges]
    /\ attrs = NoAttrs
    /\ last = Call("main", [none |-> TRUE], Ok(NULL))
    /\ nit = NoNodeIter
    /\ eit = NoEdgeIter
    /\ rt = <<>>

NextKind ==
    \/ \E name \in GraphNames, d \in BOOLEAN :
          \E alloc \in GraphAlloc : GraphNew(name, d, alloc)
    \/ \E name \in GraphNames, d \in BOOLEAN, st \in BOOLEAN :
          \E alloc \in GraphAlloc : GraphNewWithStrictness(name, d, st, alloc)
    \/ \E name \in GraphNames, flags \in FlagStaging :
          \E alloc \in GraphAlloc :
             GraphBuilder_build(FlagCalls(GraphBuilder_new(name), flags),
                                flags, <<>>, alloc)
    \/ Live /\ CallIsDirected
    \/ Live /\ CallIsStrict
    \/ Live /\ \E name \in AttrNodeNames :
          \E alloc \in NodeAlloc : add_node(name, alloc) /\ WithinCap
    \/ Live /\ \E from \in Nodes, to \in Nodes :
          \E alloc \in EdgeAlloc : add_edge(from, to, None, alloc) /\ WithinCap
    \/ Live /\ \E node \in Nodes : remove_node(node)
    \/ Live /\ \E edge \in Handles : remove_edge(edge)
    \/ Live /\ \E p \in KindPairs :
          \E alloc \in AttrAlloc(TheGraph, p[1]) :
             CallSetAttribute(TheGraph, p[1], p[2], alloc)

SpecKind == InitKind /\ [][NextKind]_vars

\* ------------------------------------------------------------ rendering
\* render.rs.  The layout and the native renderer are not modelled: what
\* gvRenderData hands back for the laid-out graph is part of the native
\* handle's state (field render of rt[1]), any of the outcomes below, and the
\* same on every call for that graph.  A Vec<u8> is a sequence of bytes; a
\* String is the sequence of its Unicode scalar values.
Formats ==
    {"png", "svg", "pdf", "ps", "eps", "gif", "jpeg", "json", "dot", "xdot",
     "plain", "canon", "fig", "vrml", "cmapx", "imap", "bmp", "svgz"}

\* Format::as_cstr: the format's name as a CString; no name holds a NUL, so
\* the InvalidFormat arm is never taken.
as_cstr(format) == Ok(format)

is_binary_text_svgz(format) == format \in {"png", "gif", "jpeg", "pdf", "bmp"}

\* Format::is_binary
is_binary(format) == format \in {"png", "gif", "jpeg", "pdf", "bmp", "svgz"}

\* The bytes a rendering is made of: an ASCII letter, a UTF-8 lead byte
\* (0xC3) and a continuation byte (0xA9); the last two are a character when
\* they come in that order, and malformed UTF-8 otherwise.
RenderBytes == {65, 169, 195}
MaxPayload == 3

RECURSIVE SeqsUpTo(_, _)
SeqsUpTo(S, n) ==
    IF n = 0 THEN {<<>>}
    ELSE LET shorter == SeqsUpTo(S, n - 1)
         IN shorter \cup {<<x>> \o s : x \in S, s \in {t \in shorter : Len(t) = n - 1}}

\* gvRenderData's outcomes: a result code, and the buffer it stored (None:
\* the null pointer; Some(bytes): length bytes at the pointer).
Renderings ==
    {[result |-> 1, buffer |-> None], [result |-> 0, buffer |-> None]}
        \cup {[result |-> 0, buffer |-> Some(b)] : b \in SeqsUpTo(RenderBytes, MaxPayload)}

Laid(d, out) == [closes |-> 0, owner |-> TRUE, views |-> 0,
                 onode |-> FALSE, vnode |-> FALSE, desc |-> d, render |-> out]

gvRenderData(format_cstr) == rt[1].render

\* str::from_utf8: the width of the well-formed UTF-8 sequence b starts
\* with, 0 when it starts with none.
Cont(x) == 128 <= x /\ x <= 191
Utf8Width(b) ==
    LET n == Len(b) IN
    IF b[1] < 128 THEN 1
    ELSE IF 194 <= b[1] /\ b[1] <= 223
    THEN IF n >= 2 /\ Cont(b[2]) THEN 2 ELSE 0
    ELSE IF 224 <= b[1] /\ b[1] <= 239
    THEN IF /\ n >= 3 /\ Cont(b[2]) /\ Cont(b[3])
            /\ (b[1] = 224 => b[2] >= 160)
            /\ (b[1] = 237 => b[2] <= 159)
         THEN 3 ELSE 0
    ELSE IF 240 <= b[1] /\ b[1] <= 244
    THEN IF /\ n >= 4 /\ Cont(b[2]) /\ Cont(b[3]) /\ Cont(b[4])
            /\ (b[1] = 240 => b[2] >= 144)
            /\ (b[1] = 244 => b[2] <= 143)
         THEN 4 ELSE 0
    ELSE 0

Scalar(b, w) ==
    IF w = 1 THEN b[1]
    ELSE IF w = 2 THEN (b[1] - 192) * 64 + (b[2] - 128)
    ELSE IF w = 3 THEN (b[1] - 224) * 4096 + (b[2] - 128) * 64 + (b[3] - 128)
    ELSE (b[1] - 240) * 262144 + (b[2] - 128) * 4096
            + (b[3] - 128) * 64 + (b[4] - 128)

RECURSIVE from_utf8(_)
from_utf8(b) ==
    IF Len(b) = 0 THEN Ok(<<>>)
    ELSE LET w == Utf8Width(b) IN
         IF w = 0 THEN Err("Utf8Error")
         ELSE LET rest == from_utf8(SubSeq(b, w + 1, Len(b))) IN
              IF rest.ok THEN Ok(<<Scalar(b, w)>> \o rest.val) ELSE rest

\* base64's STANDARD engine: the alphabet A-Z a-z 0-9 + /, three bytes to
\* four characters, the last group padded with '='.
STANDARD(i) ==
    IF i < 26 THEN 65 + i
    ELSE IF i < 52 THEN 97 + (i - 26)
    ELSE IF i < 62 THEN 48 + (i - 52)
    ELSE IF i = 62 THEN 43 ELSE 47
PAD == 61

RECURSIVE encode(_)
encode(b) ==
    IF Len(b) = 0 THEN <<>>
    ELSE IF Len(b) = 1
    THEN <<STANDARD(b[1] \div 4), STANDARD((b[1] % 4) * 16), PAD, PAD>>
    ELSE IF Len(b) = 2
    THEN <<STANDARD(b[1] \div 4),
           STANDARD((b[1] % 4) * 16 + (b[2] \div 16)),
           STANDARD((b[2] % 16) * 4), PAD>>
    ELSE <<STANDARD(b[1] \div 4),
           STANDARD((b[1] % 4) * 16 + (b[2] \div 16)),
           STANDARD((b[2] % 16) * 4 + (b[3] \div 64)),
           STANDARD(b[3] % 64)>> \o encode(SubSeq(b, 4, Len(b)))

\* render_to_bytes(context, graph, format)
render_to_bytes(format) ==
    LET format_cstr == as_cstr(format) IN
    IF ~format_cstr.ok THEN format_cstr
    ELSE LET r == gvRenderData(format_cstr.val) IN
         IF r.result # 0 THEN Err("RenderFailed")
         ELSE IF r.buffer = None THEN Err("NullPointer")
         ELSE Ok(r.buffer[1])

\* render_to_string(context, graph, format)
render_to_string(format) ==
    LET format_cstr == as_cstr(format) IN
    IF ~format_cstr.ok THEN format_cstr
    ELSE LET r == gvRenderData(format_cstr.val) IN
         IF r.result # 0 THEN Err("RenderFailed")
         ELSE IF r.buffer = None THEN Err("NullPointer")
         ELSE LET data_slice == r.buffer[1] IN
              IF is_binary(format) THEN Ok(encode(data_slice))
              ELSE LET s == from_utf8(data_slice) IN
                   IF s.ok THEN Ok(s.val) ELSE Err("InvalidUtf8")

\* The gvFreeRenderData calls of render_to_bytes, in order: the buffer each
\* was given.
render_to_bytes_freed(format) ==
    LET format_cstr == as_cstr(format) IN
    IF ~format_cstr.ok THEN <<>>
    ELSE LET r == gvRenderData(format_cstr.val) IN
         IF r.result # 0 THEN <<>>
         ELSE IF r.buffer = None THEN <<>>
         ELSE <<r.buffer>>

render_to_string_freed_leak(format) ==
    LET format_cstr == as_cstr(format) IN
    IF ~format_cstr.ok THEN <<>>
    ELSE LET r == gvRenderData(format_cstr.val) IN
         IF r.result # 0 THEN <<>>
         ELSE IF r.buffer = None THEN <<>>
         ELSE LET data_slice == r.buffer[1] IN
              IF is_binary(format) THEN <<r.buffer>>
              ELSE LET s == from_utf8(data_slice) IN
                   IF s.ok THEN <<r.buffer>> ELSE <<>>

\* The gvFreeRenderData calls of render_to_string, in order: the one before
\* the InvalidUtf8 return, or the one before the Ok return.
render_to_string_freed(format) ==
    LET format_cstr == as_cstr(format) IN
    IF ~format_cstr.ok THEN <<>>
    ELSE LET r == gvRenderData(format_cstr.val) IN
         IF r.result # 0 THEN <<>>
         ELSE IF r.buffer = None THEN <<>>
         ELSE LET data_slice == r.buffer[1] IN
              IF is_binary(format) THEN <<r.buffer>>
              ELSE LET s == from_utf8(data_slice) IN
                   IF s.ok THEN <<r.buffer>> ELSE <<r.buffer>>

\* The sink: what each successive Write::write call of the writer does.
\* Ok(n): it takes the first n bytes of the buffer it is given (all of it
\* when shorter); Interrupted: ErrorKind::Interrupted; Failed: any other
\* io::Error.  A writer whose script has run out takes whole buffers.
WriteOk(n) == [kind |-> "Ok", n |-> n]
Interrupted == [kind |-> "Interrupted", n |-> 0]
Failed == [kind |-> "Failed", n |-> 0]
Writers ==
    {<<>>, <<WriteOk(1)>>, <<WriteOk(2), Interrupted, WriteOk(1)>>,
     <<WriteOk(0)>>, <<Failed>>, <<WriteOk(1), Failed>>}

Min(a, b) == IF a <= b THEN a ELSE b

write_once(buf, writer, sink) ==
    IF Len(buf) = 0 \/ writer = <<>> THEN [ret |-> Ok(NULL), sink |-> sink \o buf]
    ELSE LET w == Head(writer) IN
         IF w.kind = "Ok"
         THEN [ret |-> Ok(NULL), sink |-> sink \o SubSeq(buf, 1, Min(w.n, Len(buf)))]
         ELSE [ret |-> Err("io::Error"), sink |-> sink]

\* Write::write_all(buf): write until the buffer is empty; Ok(0) is the
\* error WriteZero, Interrupted is retried, any other error is returned.
RECURSIVE write_all(_, _, _)
write_all(buf, writer, sink) ==
    IF Len(buf) = 0 THEN [ret |-> Ok(NULL), sink |-> sink]
    ELSE IF writer = <<>> THEN [ret |-> Ok(NULL), sink |-> sink \o buf]
    ELSE LET w == Head(writer) IN
         IF w.kind = "Ok"
         THEN IF w.n = 0 THEN [ret |-> Err("io::Error"), sink |-> sink]
              ELSE LET n == Min(w.n, Len(buf)) IN
                   write_all(SubSeq(buf, n + 1, Len(buf)), Tail(writer),
                             sink \o SubSeq(buf, 1, n))
         ELSE IF w.kind = "Interrupted" THEN write_all(buf, Tail(writer), sink)
         ELSE [ret |-> Err("io::Error"), sink |-> sink]

\* impl From<std::io::Error> for GraphvizError
FromIoError(e) == "IoError"

\* render_to_writer(context, graph, format, writer): the outcome and what
\* the writer has received when the call returns.
render_to_writer(format, writer) ==
    LET bytes == render_to_bytes(format) IN
    IF ~bytes.ok THEN [ret |-> bytes, sink |-> <<>>]
    ELSE LET w == write_all(bytes.val, writer, <<>>) IN
         IF ~w.ret.ok THEN [ret |-> Err(FromIoError(w.ret.err)), sink |-> w.sink]
         ELSE [ret |-> Ok(NULL), sink |-> w.sink]

CallRenderToBytes(format) ==
    /\ last' = Call("render_to_bytes",
                    [format |-> format, freed |-> render_to_bytes_freed(format)],
                    render_to_bytes(format))
    /\ UNCHANGED <<rt, desc, g_nodes, g_edges, seq, cap, attrs, nit, eit>>

CallRenderToString(format) ==
    /\ last' = Call("render_to_string",
                    [format |-> format, freed |-> render_to_string_freed(format)],
                    render_to_string(format))
    /\ UNCHANGED <<rt, desc, g_nodes, g_edges, seq, cap, attrs, nit, eit>>

CallRenderToWriter(format, writer) ==
    LET r == render_to_writer(format, writer) IN
    /\ last' = Call("render_to_writer",
                    [format |-> format, writer |-> writer, sink |-> r.sink], r.ret)
    /\ UNCHANGED <<rt, desc, g_nodes, g_edges, seq, cap, attrs, nit, eit>>

\* A laid-out graph, rendered any number of times in any format.
InitRender ==
    /\ desc = [directed |-> TRUE, strict |-> FALSE]
    /\ g_nodes = <<>>
    /\ g_edges = <<>>
    /\ seq = [node |-> 0, edge |-> 0]
    /\ cap = [node |-> 0, edge |-> 0]
    /\ attrs = NoAttrs
    /\ last = Call("layout", [none |-> TRUE], Ok(NULL))
    /\ nit = NoNodeIter
    /\ eit = NoEdgeIter
    /\ \E out \in Renderings : rt = <<Laid(desc, out)>>

NextRender ==
    \/ \E format \in Formats : CallRenderToBytes(format)
    \/ \E format \in Formats : CallRenderToString(format)
    \/ \E format \in Formats, writer \in Writers : CallRenderToWriter(format, writer)

SpecRender == InitRender /\ [][NextRender]_vars

\* ------------------------------------------------------------ contexts
\* layout.rs.  In this layer rt is the sequence of native GVC_t handles
\* gvContext has returned (a handle is its index): for each, how often
\* gvFreeContext was called on it, and whether the Context value that holds
\* it is alive.  A Context value is [inner]; the graph the calls are given
\* is the one graph of the tables.
MaxContexts == 2
ContextAlloc == IF Len(rt) < MaxContexts THEN BOOLEAN ELSE {FALSE}
Engines == {"dot", "neato", "fdp", "sfdp", "twopi", "circo", "osage", "patchwork"}

\* Engine::as_cstr: no engine name holds a NUL.
Engine_as_cstr(engine) == Ok(engine)

\* gvContext() / gvContextPlugins(..): a new handle, or a null pointer.
gvContext(r, alloc) ==
    IF alloc THEN [ret |-> Len(r) + 1, rt |-> Append(r, [frees |-> 0, owner |-> TRUE])]
    ELSE [ret |-> NULL, rt |-> r]

\* gvFreeContext(gvc)
gvFreeContext(r, gvc) == [r EXCEPT ![gvc].frees = @ + 1]

\* The Context values alive.
Contexts == {[inner |-> h] : h \in {c \in DOMAIN rt : rt[c].owner}}

\* What a native call finds at the handle it is passed.
ContextReleased(context) == rt[context.inner].frees > 0

ContextUnchanged == UNCHANGED <<desc, g_nodes, g_edges, seq, cap, attrs, nit, eit>>

\* Context::new
Context_new(alloc) ==
    LET c == gvContext(rt, alloc)
    IN /\ rt' = c.rt
       /\ last' = Call("Context::new", [alloc |-> alloc],
                       IF c.ret = NULL THEN Err("ContextCreationFailed")
                       ELSE Ok(c.ret))
       /\ ContextUnchanged

\* Context::new_with_plugins
new_with_plugins(builtins, demand_loading, alloc) ==
    LET c == gvContext(rt, alloc)
    IN /\ rt' = c.rt
       /\ last' = Call("Context::new_with_plugins",
                       [builtins |-> builtins, demand_loading |-> demand_loading,
                        alloc |-> alloc],
                       IF c.ret = NULL THEN Err("ContextCreationFailed")
                       ELSE Ok(c.ret))
       /\ ContextUnchanged

\* A drop that releases every context of the process.
Context_drop_every(self) ==
    /\ rt' = [h \in DOMAIN rt |-> [rt[h] EXCEPT !.frees = @ + 1,
                                                  !.owner = @ /\ h # self.inner]]
    /\ last' = Call("Context::drop", [self |-> self], Ok(NULL))
    /\ ContextUnchanged

\* <Context as Drop>::drop, as the value goes out of scope.
Context_drop(self) ==
    /\ rt' = [(IF self.inner # NULL THEN gvFreeContext(rt, self.inner) ELSE rt)
                 EXCEPT ![self.inner].owner = FALSE]
    /\ last' = Call("Context::drop", [self |-> self], Ok(NULL))
    /\ ContextUnchanged

\* apply_layout(context, graph, engine); `result` is what gvLayout returns.
apply_layout(context, engine, result) ==
    LET engine_cstr == Engine_as_cstr(engine)
    IN /\ last' = Call("apply_layout",
                       [context |-> context, engine |-> engine,
                        released |-> ContextReleased(context)],
                       IF ~engine_cstr.ok THEN engine_cstr
                       ELSE IF result = 0 THEN Ok(NULL) ELSE Err("LayoutFailed"))
       /\ UNCHANGED rt
       /\ ContextUnchanged

\* free_layout(context, graph); `result` is what gvFreeLayout returns.
free_layout(context, result) ==
    /\ last' = Call("free_layout",
                    [context |-> context, released |-> ContextReleased(context)],
                    IF result = 0 THEN Ok(NULL) ELSE Err("FreeLayoutFailed"))
    /\ UNCHANGED rt
    /\ ContextUnchanged

\* render_to_file, render_to_string, render_to_bytes and render_to_writer,
\* as far as the context goes: each hands context.inner to one native
\* render call; `result` is what that call returns.
RenderCalls == {"render_to_file", "render_to_string", "render_to_bytes",
                "render_to_writer"}
render_with(op, context, format, result) ==
    LET format_cstr == as_cstr(format)
    IN /\ last' = Call(op, [context |-> context, format |-> format,
                            released |-> ContextReleased(context)],
                       IF ~format_cstr.ok THEN format_cstr
                       ELSE IF result # 0 THEN Err("RenderFailed") ELSE Ok(NULL))
       /\ UNCHANGED rt
       /\ ContextUnchanged

NativeResults == {0, 1}
ContextFormats == {"png", "dot"}

InitContext ==
    /\ desc = [directed |-> TRUE, strict |-> FALSE]
    /\ g_nodes = <<>>
    /\ g_edges = <<>>
    /\ seq = [node |-> 0, edge |-> 0]
    /\ cap = [node |-> 0, edge |-> 0]
    /\ attrs = NoAttrs
    /\ last = Call("main", [none |-> TRUE], Ok(NULL))
    /\ nit = NoNodeIter
    /\ eit = NoEdgeIter
    /\ rt = <<>>

NextContext ==
    \/ \E alloc \in ContextAlloc : Context_new(alloc)
    \/ \E builtins \in BOOLEAN, demand_loading \in BOOLEAN :
          \E alloc \in ContextAlloc : new_with_plugins(builtins, demand_loading, alloc)
    \/ \E self \in Contexts : Context_drop(self)
    \/ \E context \in Contexts, engine \in Engines, result \in NativeResults :
          apply_layout(context, engine, result)
    \/ \E context \in Contexts, result \in NativeResults : free_layout(context, result)
    \/ \E op \in RenderCalls, context \in Contexts, format \in ContextFormats :
          \E result \in NativeResults : render_with(op, context, format, result)

SpecContext == InitContext /\ [][NextContext]_vars

\* ------------------------------------------------------------ foreign nodes
\* Graph::add_edge takes any two &Node: nothing in its signature or its body
\* ties them to the receiver.  With a node of another graph the call reaches
\* agedge as with any other.

\* agedge(g, t, h, name, 1) with t or h not a node of g.  The probe finds
\* nothing (the foreign node has no record in g); with the allocation
\* refused the result is a null pointer.  Otherwise the new edge pair is
\* installed through the record of each end in g, which the foreign end does
\* not have: the write goes through a null or an unrelated record, and the
\* call either ends the process or returns the new edge, installed on
\* whichever side has a record.
agedge_foreign(t, h, name, alloc) ==
    LET e == seq.edge + 1
        same(ret, aborted) ==
            [ret |-> ret, aborted |-> aborted,
             edges |-> g_edges, seq |-> seq, attrs |-> attrs]
    IN IF ~(ok_to_make_edge(t, h) /\ alloc)
       THEN {same(NULLE, FALSE)}
       ELSE {same(NULLE, TRUE),
             [ret |-> MkOut(e), aborted |-> FALSE,
              edges |-> (e :> [tail |-> t, head |-> h,
                               key |-> IF name = None THEN None
                                       ELSE Some(CStr(name[1]))]) @@ g_edges,
              seq |-> [seq EXCEPT !.edge = e],
              attrs |-> [attrs EXCEPT !.e = (e :> attrs.dict.e) @@ @]]}

\* Graph::add_edge with `from` or `to` a Node of another Graph.  A call that
\* ended the process has no return value: it is recorded as the error
\* "SIGSEGV", which is none of GraphvizError.
add_edge_foreign(from, to, name, alloc) ==
    LET arg == [from |-> from, to |-> to, name |-> name, alloc |-> alloc,
                same |-> {}, any |-> {}, rev |-> {}]
        name_cstr == OptCString(name)
    IN IF ~name_cstr.ok
       THEN /\ last' = Call("add_edge", arg, [Err(name_cstr.err) EXCEPT !.val = NULLE])
            /\ UNCHANGED <<rt, desc, g_nodes, g_edges, seq, cap, attrs, nit, eit>>
       ELSE \E r \in agedge_foreign(from, to, name_cstr.val, alloc) :
               /\ g_edges' = r.edges
               /\ seq' = r.seq
               /\ attrs' = r.attrs
               /\ last' = Call("add_edge", arg,
                               IF r.aborted
                               THEN [Err("SIGSEGV") EXCEPT !.val = NULLE]
                               ELSE IF r.ret = NULLE
                               THEN [Err("EdgeCreationFailed") EXCEPT !.val = NULLE]
                               ELSE Ok(r.ret))
               /\ nit' = IF r.edges # g_edges THEN Touched(nit) ELSE nit
               /\ eit' = IF r.edges # g_edges THEN Touched(eit) ELSE eit
               /\ UNCHANGED <<rt, desc, g_nodes, cap>>

\* The pairs of ends of which at least one is foreign.
ForeignPairs ==
    {p \in (Nodes \cup {ForeignNode}) \X (Nodes \cup {ForeignNode}) :
        ForeignNode \in {p[1], p[2]}}

\* The graph is followed up to the first call that went into the native
\* layer with a foreign node and did not come back with a null pointer:
\* what the tables hold after it is not defined.
Foreigned ==
    /\ last.op = "add_edge"
    /\ ForeignNode \in {last.arg.from, last.arg.to}
    /\ last.ret.err \notin {"EdgeCreationFailed", "InvalidString"}

NextForeign ==
    \/ ~Foreigned /\ \E name \in NodeNames : \E alloc \in NodeAlloc :
          add_node(name, alloc) /\ WithinCap
    \/ ~Foreigned /\ \E from \in Nodes, to \in Nodes, name \in EdgeNames :
          \E alloc \in EdgeAlloc : add_edge(from, to, name, alloc) /\ WithinCap
    \/ ~Foreigned /\ \E p \in ForeignPairs, name \in EdgeNames :
          \E alloc \in EdgeAlloc : add_edge_foreign(p[1], p[2], name, alloc) /\ WithinCap
    \/ ~Foreigned /\ \E edge \in Handles : remove_edge(edge)

SpecForeign == Init /\ [][NextForeign]_vars

\* ------------------------------------------------------------ walks
\* The graph is built while no iterator is live, then walked by one NodeIter
\* or EdgeIter to its end (or until the iterator is dropped): the graph is
\* not changed under a live iterator.  Every next() that returns an item
\* appends it to the iterator's `yielded`.
MaxWalkNodes == 3
MaxWalkEdges == 2

InitWalk ==
    /\ desc \in [directed : BOOLEAN, strict : BOOLEAN]
    /\ g_nodes = <<>>
    /\ g_edges = <<>>
    /\ seq = [node |-> 0, edge |-> 0]
    /\ cap = [node |-> MaxWalkNodes, edge |-> MaxWalkEdges]
    /\ attrs = NoAttrs
    /\ last = Call("new", [none |-> TRUE], Ok(NULL))
    /\ nit = NoNodeIter
    /\ eit = NoEdgeIter
    /\ rt = <<Opened(desc)>>

NextWalk ==
    \/ AtRest /\ \E name \in IterNodeNames : add_node(name, TRUE) /\ WithinCap
    \/ AtRest /\ \E from \in Nodes, to \in Nodes, name \in IterEdgeNames :
          add_edge(from, to, name, TRUE) /\ WithinCap
    \/ AtRest /\ MakeNodes
    \/ AtRest /\ MakeEdges
    \/ AtRest /\ \E node \in Nodes : MakeOutEdges(node)
    \/ AtRest /\ \E node \in Nodes : MakeInEdges(node)
    \/ StepNodeIter
    \/ StepEdgeIter
    \/ DropIter

SpecWalk == InitWalk /\ [][NextWalk]_vars

\* ------------------------------------------------------------ instances
\* The attribute layer on a graph with several nodes and edges: which
\* objects a set_attribute call on a node or an edge changes.
MaxInstNodes == 2
MaxInstEdges == 1
InstPairs == {<<KeyX, ValV>>, <<KeyX, ValW>>}

InitInstances ==
    /\ desc = [directed |-> TRUE, strict |-> FALSE]
    /\ g_nodes = <<>>
    /\ g_edges = <<>>
    /\ seq = [node |-> 0, edge |-> 0]
    /\ cap = [node |-> MaxInstNodes, edge |-> MaxInstEdges]
    /\ attrs = NoAttrs
    /\ last = Call("new", [none |-> TRUE], Ok(NULL))
    /\ nit = NoNodeIter
    /\ eit = NoEdgeIter
    /\ rt = <<Opened(desc)>>

NextInstances ==
    \/ \E name \in AttrNodeNames : add_node(name, TRUE) /\ WithinCap
    \/ \E node \in Nodes : add_edge(node, node, None, TRUE) /\ WithinCap
    \/ \E obj \in Objects \ {TheGraph}, p \in InstPairs :
          \E alloc \in AttrAlloc(obj, p[1]) :
             CallSetAttribute(obj, p[1], p[2], alloc)

SpecInstances == InitInstances /\ [][NextInstances]_vars

\* ------------------------------------------------------------ strings at the boundary
\* The native calls a method has made by the time one of its CString::new
\* conversions fails.  Every method converts its strings first, except
\* Node::set_attribute and Edge::set_attribute, which begin with
\* sys::agraphof(self.inner), a read of the object's graph.
NativesBefore(call) ==
    IF call.op = "set_attribute" /\ call.arg.obj.type # AGRAPH
    THEN <<"agraphof">>
    ELSE <<>>

\* The graph and attribute layers together, called with names and values
\* with and without a NUL.
NextStrings ==
    \/ \E name \in NodeNames : \E alloc \in NodeAlloc : add_node(name, alloc) /\ WithinHeld
    \/ \E name \in NodeNames : get_node(name)
    \/ \E from \in Nodes, to \in Nodes, name \in EdgeNames :
          \E alloc \in EdgeAlloc : add_edge(from, to, name, alloc) /\ WithinHeld
    \/ \E obj \in Objects, p \in AbsentPairs : CallSetAttribute(obj, p[1], p[2], TRUE)
    \/ \E obj \in Objects, name \in AttrNames : CallGetAttribute(obj, name)

SpecStrings == InitAttr /\ [][NextStrings]_vars

\* ------------------------------------------------------------ removal under a live iterator
\* remove_node and remove_edge take &self, so they can be called on the
\* graph a live NodeIter or EdgeIter borrows.  The graph is built while no
\* iterator is live; then one iterator is made, and next() calls are
\* interleaved with removals of nodes and edges the graph holds.
MaxInterNodes == 2
MaxInterEdges == 1

InitInterleave ==
    /\ desc \in [directed : BOOLEAN, strict : BOOLEAN]
    /\ g_nodes = <<>>
    /\ g_edges = <<>>
    /\ seq = [node |-> 0, edge |-> 0]
    /\ cap = [node |-> MaxInterNodes, edge |-> MaxInterEdges]
    /\ attrs = NoAttrs
    /\ last = Call("new", [none |-> TRUE], Ok(NULL))
    /\ nit = NoNodeIter
    /\ eit = NoEdgeIter
    /\ rt = <<Opened(desc)>>

NextInterleave ==
    \/ AtRest /\ \E name \in IterNodeNames : add_node(name, TRUE) /\ WithinCap
    \/ AtRest /\ \E from \in Nodes, to \in Nodes, name \in IterEdgeNames :
          add_edge(from, to, name, TRUE) /\ WithinCap
    \/ AtRest /\ MakeNodes
    \/ AtRest /\ MakeEdges
    \/ AtRest /\ \E node \in Nodes : MakeOutEdges(node)
    \/ AtRest /\ \E node \in Nodes : MakeInEdges(node)
    \/ ~AtRest /\ \E node \in Nodes : remove_node(node)
    \/ ~AtRest /\ \E edge \in Handles : remove_edge(edge)
    \/ StepNodeIter
    \/ StepEdgeIter
    \/ DropIter

SpecInterleave == InitInterleave /\ [][NextInterleave]_vars

\* ------------------------------------------------------------ RenderOptions
\* render.rs.  In this layer rt holds the RenderOptions value the caller
\* built, rt[1], which apply borrows.  The attribute names and values
\* RenderOptions::apply writes, as bytes:
smoothing == <<115, 109, 111, 111, 116, 104, 105, 110, 103>>
bgcolor == <<98, 103, 99, 111, 108, 111, 114>>
transparent == <<116, 114, 97, 110, 115, 112, 97, 114, 101, 110, 116>>
dpi == <<100, 112, 105>>
bb == <<98, 98>>
true == <<116, 114, 117, 101>>
scale == <<115, 99, 97, 108, 101>>
size == <<115, 105, 122, 101>>
quality == <<113, 117, 97, 108, 105, 116, 121>>
white == <<119, 104, 105, 116, 101>>
black == <<98, 108, 97, 99, 107>>

\* u32::to_string: the decimal digits.
RECURSIVE u32_to_string(_)
u32_to_string(n) ==
    IF n < 10 THEN <<48 + n>>
    ELSE u32_to_string(n \div 10) \o <<48 + (n % 10)>>

\* f64::to_string, over the values the model passes: the multiples h/2 of
\* one half, written without a fraction when whole.
f64_to_string(h) ==
    LET m == IF h < 0 THEN 0 - h ELSE h
    IN (IF h < 0 THEN <<45>> ELSE <<>>)
           \o u32_to_string(m \div 2)
           \o (IF m % 2 = 1 THEN <<46, 53>> ELSE <<>>)

\* impl Default for RenderOptions
RenderOptions_default ==
    [anti_alias |-> TRUE, transparent |-> FALSE, dpi |-> None,
     background |-> None, show_bb |-> FALSE, scale |-> None, size |-> None,
     quality |-> None]

\* The options followed: 300 dpi, a scale of 1.5, a size of 4 by 2.5, a
\* quality of 90, a background of "white" or of a string with a NUL.
RenderOptionsFollowed ==
    [anti_alias : BOOLEAN, transparent : BOOLEAN, dpi : {None, Some(600)},
     background : {None, Some(white), Some(NameNul)}, show_bb : BOOLEAN,
     scale : {None, Some(3)}, size : {None, Some(<<8, 5>>)},
     quality : {None, Some(90)}]

\* An apply that writes the transparency after the background.
ApplySteps_transparent_last(self) ==
    << [on |-> ~self.anti_alias, name |-> smoothing, value |-> <<48>>],
       [on |-> self.dpi # None, name |-> dpi,
        value |-> IF self.dpi # None THEN f64_to_string(self.dpi[1]) ELSE <<>>],
       [on |-> self.background # None, name |-> bgcolor,
        value |-> IF self.background # None THEN self.background[1] ELSE <<>>],
       [on |-> self.transparent, name |-> bgcolor, value |-> transparent],
       [on |-> self.show_bb, name |-> bb, value |-> true],
       [on |-> self.scale # None, name |-> scale,
        value |-> IF self.scale # None THEN f64_to_string(self.scale[1]) ELSE <<>>],
       [on |-> self.size # None, name |-> size,
        value |-> IF self.size # None
                  THEN f64_to_string(self.size[1][1]) \o <<44>>
                           \o f64_to_string(self.size[1][2]) \o <<33>>
                  ELSE <<>>],
       [on |-> self.quality # None, name |-> quality,
        value |-> IF self.quality # None
                  THEN u32_to_string(self.quality[1]) ELSE <<>>] >>

\* RenderOptions::apply: its `if` statements in order, each with its
\* condition and the set_attribute call it guards.
ApplySteps(self) ==
    << [on |-> ~self.anti_alias, name |-> smoothing, value |-> <<48>>],
       [on |-> self.transparent, name |-> bgcolor, value |-> transparent],
       [on |-> self.dpi # None, name |-> dpi,
        value |-> IF self.dpi # None THEN f64_to_string(self.dpi[1]) ELSE <<>>],
       [on |-> self.background # None, name |-> bgcolor,
        value |-> IF self.background # None THEN self.background[1] ELSE <<>>],
       [on |-> self.show_bb, name |-> bb, value |-> true],
       [on |-> self.scale # None, name |-> scale,
        value |-> IF self.scale # None THEN f64_to_string(self.scale[1]) ELSE <<>>],
       [on |-> self.size # None, name |-> size,
        value |-> IF self.size # None
                  THEN f64_to_string(self.size[1][1]) \o <<44>>
                           \o f64_to_string(self.size[1][2]) \o <<33>>
                  ELSE <<>>],
       [on |-> self.quality # None, name |-> quality,
        value |-> IF self.quality # None
                  THEN u32_to_string(self.quality[1]) ELSE <<>>] >>

\* RenderOptions::apply(self, graph): the result, the attribute state
\* afterwards and the names set_attribute was called with.  `refuse` is the
\* `if` statement at which the native heap refuses an allocation (0: none).
RECURSIVE ApplyFrom(_, _, _, _, _)
ApplyFrom(steps, i, a, refuse, calls) ==
    IF i > Len(steps) THEN [ret |-> Ok(NULL), attrs |-> a, calls |-> calls]
    ELSE IF ~steps[i].on THEN ApplyFrom(steps, i + 1, a, refuse, calls)
    ELSE LET r == Graph_set_attribute(a, steps[i].name, steps[i].value, refuse # i)
         IN IF ~r.ret.ok
            THEN [ret |-> r.ret, attrs |-> r.attrs,
                  calls |-> Append(calls, steps[i].name)]
            ELSE ApplyFrom(steps, i + 1, r.attrs, refuse,
                           Append(calls, steps[i].name))

RenderOptions_apply(self, a, refuse) == ApplyFrom(ApplySteps(self), 1, a, refuse, <<>>)

CallApply(refuse) ==
    LET r == RenderOptions_apply(rt[1], attrs, refuse)
    IN /\ attrs' = r.attrs
       /\ last' = Call("apply", [calls |-> r.calls], r.ret)
       /\ UNCHANGED <<rt, desc, g_nodes, g_edges, seq, cap, nit, eit>>

\* What the graph may carry before apply is called.
OptionPairs == {<<bgcolor, black>>, <<dpi, u32_to_string(72)>>}

\* A graph and a RenderOptions value; the attributes of the graph are set
\* by set_attribute and by apply, in any order.
InitOptions ==
    /\ desc = [directed |-> TRUE, strict |-> FALSE]
    /\ g_nodes = <<>>
    /\ g_edges = <<>>
    /\ seq = [node |-> 0, edge |-> 0]
    /\ cap = [node |-> 0, edge |-> 0]
    /\ attrs = NoAttrs
    /\ last = Call("new", [none |-> TRUE], Ok(NULL))
    /\ nit = NoNodeIter
    /\ eit = NoEdgeIter
    /\ \E self \in RenderOptionsFollowed : rt = <<self>>

NextOptions ==
    \/ \E p \in OptionPairs : CallSetAttribute(TheGraph, p[1], p[2], TRUE)
    \/ \E refuse \in 0..Len(ApplySteps(rt[1])) : CallApply(refuse)

SpecOptions == InitOptions /\ [][NextOptions]_vars

\* ============================================================ claims
\* C1: add_node(name) with a NUL-free name of a node that already exists
\* returns that node and leaves node_count unchanged; node_count grows only
\* on the first add_node of a name, and then by exactly one (the node
\* returned is the new node of that name).
C1_AddNodeIdempotent ==
    (last.op = "add_node" /\ ~HasNul(last.arg.name)) =>
        IF last.arg.found # NULL
        THEN /\ last.ret = Ok(last.arg.found)
             /\ g_nodes[last.ret.val] = last.arg.name
             /\ node_count = last.pre.nc
        ELSE IF last.arg.alloc
        THEN /\ last.ret.ok
             /\ node_count = last.pre.nc + 1
             /\ g_nodes[last.ret.val] = last.arg.name
        ELSE /\ last.ret = Err("NodeCreationFailed")
             /\ node_count = last.pre.nc

\* A second add_node of a name, in a graph that holds another node too.
C1_Witness ==
    /\ last.op = "add_node"
    /\ last.arg.found # NULL
    /\ last.ret.ok
    /\ node_count = 2

\* The edges between the endpoints of an add_edge call that carry its name
\* (or, like it, none).
EqualKeyEdges(a) ==
    {e \in a.any \cup (IF desc.directed THEN {} ELSE a.rev) : g_edges[e].key = a.name}

\* C10, as claimed: add_edge makes a new edge unless the graph is strict and
\* an edge for the same pair with the same name (or, like it, without one)
\* is there already, which is then returned.

RECURSIVE Ascending(_)
Ascending(S) ==
    IF S = {} THEN <<>> ELSE <<MinOf(S)>> \o Ascending(S \ {MinOf(S)})

IsPrefix(p, q) == Len(p) <= Len(q) /\ \A i \in 1..Len(p) : p[i] = q[i]
Ids(hs) == {hs[i].id : i \in 1..Len(hs)}
NoTwice(hs) == \A i, j \in 1..Len(hs) : hs[i].id = hs[j].id => i = j

\* C4: over a graph not modified during the iteration, nodes() yields the
\* nodes in creation order, each once: what it has yielded is always a prefix
\* of that order, and all of it, node_count() items, once it has returned
\* None.
C4_NodesInCreationOrder ==
    (nit.live /\ nit.clean) =>
        /\ IsPrefix(nit.yielded, Ascending(Nodes))
        /\ nit.ended => /\ nit.yielded = Ascending(Nodes)
                        /\ Len(nit.yielded) = node_count

\* A finished pass over the node left of two after the first was removed.
C4_Witness ==
    /\ nit.live /\ nit.clean /\ nit.ended
    /\ nit.yielded = <<2>>

RECURSIVE OutList(_)
OutList(h) == IF h = NULLE THEN <<>> ELSE <<h>> \o OutList(agnxtout(h))

RECURSIVE OutLists(_)
OutLists(ns) ==
    IF ns = <<>> THEN <<>> ELSE OutList(agfstout(Head(ns))) \o OutLists(Tail(ns))

\* C6, as claimed: edges() walks the nodes in NodeIter order and yields, for
\* each, exactly its outgoing edges, so that a finished pass has yielded
\* every edge once, edge_count() items in all.

C6_AsClaimed ==
    (eit.live /\ eit.node = NULL /\ eit.clean /\ eit.ended) =>
        /\ eit.yielded = OutLists(Ascending(Nodes))
        /\ Len(eit.yielded) = edge_count
        /\ NoTwice(eit.yielded)

\* C2: set_attribute(name, value) with a NUL-free name and value can fail
\* only because the native declaration of the attribute failed, and when it
\* succeeds get_attribute(name) on the same graph, node or edge returns
\* exactly value, whatever calls came before.
C2_SetThenGet ==
    (last.op = "set_attribute" /\ ~HasNul(last.arg.name)
                               /\ ~HasNul(last.arg.value)) =>
        IF last.ret.ok
        THEN get_attribute(attrs, last.arg.obj, last.arg.name)
                = Ok(Some(last.arg.value))
        ELSE last.ret.err = "AttributeSetFailed"

\* A value set on a node under a name that the graph and an edge hold under
\* the empty string.
C2_Witness ==
    /\ last.op = "set_attribute"
    /\ last.ret.ok
    /\ last.arg.obj.type = AGNODE
    /\ last.arg.value = ValV
    /\ get_attribute(attrs, TheGraph, last.arg.name) = Ok(Some(<<>>))
    /\ \E e \in Edges :
          get_attribute(attrs, MkOut(e), last.arg.name) = Ok(Some(<<>>))

\* C3, as claimed: after remove_attribute(name), whatever the NUL-free name,
\* get_attribute(name) returns the empty string.
C3_AsClaimed ==
    (last.op = "remove_attribute" /\ ~HasNul(last.arg.name)) =>
        get_attribute(attrs, last.arg.obj, last.arg.name) = Ok(Some(<<>>))

\* C3, amended: remove_attribute(name) with a NUL-free name succeeds; when
\* get_attribute(name) returned a value before it (has_attribute was true),
\* get_attribute(name) returns the empty string after it; when the
\* attribute was absent it is a no-op and get_attribute(name) still returns
\* "absent".  With a NUL in the name it fails with InvalidString.
C3_RemoveAttribute ==
    last.op = "remove_attribute" =>
        IF HasNul(last.arg.name) THEN last.ret.err = "InvalidString"
        ELSE /\ last.ret.ok
             /\ get_attribute(attrs, last.arg.obj, last.arg.name) =
                   IF last.arg.was.val # None THEN Ok(Some(<<>>)) ELSE Ok(None)

\* The removal of an attribute an edge held a value for.
C3_Witness ==
    /\ last.op = "remove_attribute"
    /\ last.arg.obj.type = AGEDGE
    /\ last.arg.was = Ok(Some(ValV))
    /\ get_attribute(attrs, last.arg.obj, last.arg.name) = Ok(Some(<<>>))

\* C7: agclose is called on a handle exactly once, when the Graph value that
\* owns it is dropped (by the caller, or by GraphBuilder::build on its error
\* path), and never by the drop of a non-owning view: a handle has been
\* closed once when its owner is gone and not at all while its owner lives.
C7_ReleasedOnce ==
    \A g \in DOMAIN rt : rt[g].closes = IF rt[g].owner THEN 0 ELSE 1

\* A view dropped after the owner of its handle.
C7_Witness ==
    /\ last.op = "Graph::drop"
    /\ ~last.arg.self.owned
    /\ ~rt[last.arg.self.inner].owner
    /\ rt[last.arg.self.inner].closes = 1

\* C8, as claimed: no call reaches a handle that has been released.
C8_AsClaimed ==
    last.op \in {"node_count", "Graph::add_node", "Node::graph"} =>
        ~last.arg.released

\* C9, as claimed: Graph::new and Graph::new_with_strictness fail with
\* GraphCreationFailed when the name holds a NUL and when the native
\* allocation fails, and make no Graph then.
C9_AsClaimed ==
    (/\ last.op \in {"Graph::new", "Graph::new_with_strictness"}
     /\ HasNul(last.arg.name) \/ ~last.arg.alloc) =>
        /\ last.ret.err = "GraphCreationFailed"
        /\ Len(rt) = last.arg.handles

\* C9, amended: they fail with InvalidString when the name holds a NUL
\* (agopen is not called), with GraphCreationFailed when agopen returns a
\* null pointer, and make no Graph in either case; otherwise they return the
\* Graph that owns a new open handle of the kind asked for.
C9_GraphNew ==
    last.op \in {"Graph::new", "Graph::new_with_strictness"} =>
        IF HasNul(last.arg.name)
        THEN last.ret = Err("InvalidString") /\ Len(rt) = last.arg.handles
        ELSE IF ~last.arg.alloc
        THEN last.ret = Err("GraphCreationFailed") /\ Len(rt) = last.arg.handles
        ELSE /\ last.ret = Ok(last.arg.handles + 1)
             /\ Len(rt) = last.arg.handles + 1
             /\ rt[last.ret.val] = Opened(last.arg.desc)

\* A name with a NUL refused while another graph is open.
C9_Witness ==
    /\ last.op = "Graph::new_with_strictness"
    /\ HasNul(last.arg.name)
    /\ last.ret.err = "InvalidString"
    /\ Len(rt) = 1

\* The edges find_edge(from, to) may find: those from `from` to `to`, and in
\* an undirected graph those from `to` to `from` as well.
Between(from, to) ==
    {e \in Edges :
        \/ g_edges[e].tail = from /\ g_edges[e].head = to
        \/ ~desc.directed /\ g_edges[e].tail = to /\ g_edges[e].head = from}

\* C11: get_node and find_edge only look up.  Every call of either leaves the
\* nodes, the edges (so node_count and edge_count) and all attribute state as
\* they were; get_node with a NUL-free name returns the node of that name, and
\* "absent" (Ok(None), not an error) when there is none; find_edge(from, to)
\* returns an edge between the two exactly when there is an edge from `from`
\* to `to`, or, in an undirected graph, from `to` to `from`, and "absent"
\* otherwise.
C11_LookupOnly ==
    [][last'.op \in {"get_node", "find_edge"} =>
          /\ UNCHANGED <<desc, g_nodes, g_edges, seq, attrs>>
          /\ node_count' = node_count /\ edge_count' = edge_count
          /\ (last'.op = "get_node" /\ ~HasNul(last'.arg.name)) =>
                /\ last'.ret.ok
                /\ last'.ret.val = NodeNamed(last'.arg.name)
                /\ (\A n \in Nodes : g_nodes[n] # last'.arg.name) =>
                      last'.ret = Ok(NULL)
          /\ last'.op = "find_edge" =>
                LET found == Between(last'.arg.from, last'.arg.to)
                IN /\ last'.ret.ok
                   /\ IF found = {} THEN last'.ret.val = NULLE
                      ELSE last'.ret.val.id \in found]_vars

\* A find_edge(from, to) in an undirected graph that found the edge made from
\* `to` to `from`.
C11_Witness ==
    /\ last.op = "find_edge"
    /\ ~desc.directed
    /\ last.arg.from # last.arg.to
    /\ last.ret.val # NULLE
    /\ g_edges[last.ret.val.id].tail = last.arg.to
    /\ g_edges[last.ret.val.id].head = last.arg.from


\* The domains (graph, node, edge), the objects of one domain, and those of
\* some objects on which get_attribute(name) returns a value.
Kinds == {"g", "n", "e"}
OfKind(objs, k) == {o \in objs : KindOf(o) = k}
Holds(a, o, name) ==
    LET got == get_attribute(a, o, name) IN got.ok /\ got.val # None
Holders(a, objs, name) == {o \in objs : Holds(a, o, name)}
Declares(call, k, name) ==
    /\ call.op \in {"set_attribute", "set_attribute_if_absent"}
    /\ KindOf(call.arg.obj) = k
    /\ call.arg.name = name
    /\ call.ret.ok

C13_SetIfAbsent ==
    [][last'.op = "set_attribute_if_absent" =>
          LET a == last'.arg
              h == has_attribute(attrs, a.obj, a.name)
          IN IF h.ok /\ h.val
             THEN /\ last'.ret = Ok(NULL)
                  /\ attrs' = attrs
                  /\ get_attribute(attrs', a.obj, a.name) = a.was
             ELSE \E alloc \in BOOLEAN :
                     LET r == set_attribute(attrs, a.obj, a.name, a.value, alloc)
                     IN last'.ret = r.ret /\ attrs' = r.attrs]_vars

\* A set_attribute_if_absent of a value on an entity that held the empty
\* string under the name, and holds it still.
C13_Witness ==
    /\ last.op = "set_attribute_if_absent"
    /\ last.arg.value = ValV
    /\ last.arg.was = Ok(Some(<<>>))
    /\ last.ret.ok
    /\ get_attribute(attrs, last.arg.obj, last.arg.name) = Ok(Some(<<>>))


\* The (name, value) pairs of a chain of attribute() calls that hold the last
\* value staged for their name, and a chain backwards.
RECURSIVE LastStaged(_)
LastStaged(calls) ==
    IF calls = <<>> THEN <<>>
    ELSE IF \E j \in 2..Len(calls) : calls[j][1] = Head(calls)[1]
    THEN LastStaged(Tail(calls))
    ELSE <<Head(calls)>> \o LastStaged(Tail(calls))

Reverse(q) == [i \in 1..Len(q) |-> q[Len(q) + 1 - i]]

\* set_attribute called on obj for each pair of a sequence, one after the
\* other, with every native allocation granted: the attribute state left.
RECURSIVE Direct(_, _, _)
Direct(a, obj, pairs) ==
    IF pairs = <<>> THEN a
    ELSE Direct(set_attribute(a, obj, Head(pairs)[1], Head(pairs)[2], TRUE).attrs,
                obj, Tail(pairs))

\* The entity a successful build step returned, and the states that making
\* the entity directly (add_node, add_edge, new_with_strictness) may leave:
\* each is the entity returned, the tables and the attribute state.
BuiltObj(call) ==
    IF call.op = "NodeBuilder::build" THEN [id |-> call.ret.val, type |-> AGNODE]
    ELSE IF call.op = "EdgeBuilder::build" THEN call.ret.val
    ELSE TheGraph

MadeDirectly(call) ==
    IF call.op = "NodeBuilder::build"
    THEN LET r == agnode(CStringNew(call.arg.self.name).val, 1, TRUE)
         IN {[obj |-> [id |-> r.ret, type |-> AGNODE],
              nodes |-> r.nodes, edges |-> g_edges, attrs |-> r.attrs]}
    ELSE IF call.op = "EdgeBuilder::build"
    THEN {[obj |-> r.ret, nodes |-> g_nodes, edges |-> r.edges, attrs |-> r.attrs] :
             r \in agedge(call.arg.self.from, call.arg.self.to,
                          OptCString(call.arg.self.name).val, 1, TRUE)}
    ELSE {[obj |-> TheGraph, nodes |-> g_nodes, edges |-> g_edges, attrs |-> NoAttrs]}

Builds == {"NodeBuilder::build", "EdgeBuilder::build", "GraphBuilder::build"}

\* C14: when build() of a GraphBuilder, NodeBuilder or EdgeBuilder succeeds,
\* the graph and its attribute state are what making the entity directly and
\* calling set_attribute on it once per staged name, with the last value
\* staged for the name, leave (all of these succeeding); the staged names
\* taken in the opposite order leave the same.
C14_BuildAsDirect ==
    [][(last'.op \in Builds /\ last'.ret.ok) =>
          \E m \in MadeDirectly(last') :
             /\ m.obj = BuiltObj(last')
             /\ g_nodes' = m.nodes
             /\ g_edges' = m.edges
             /\ attrs' = Direct(m.attrs, m.obj, LastStaged(last'.arg.calls))
             /\ attrs' = Direct(m.attrs, m.obj, Reverse(LastStaged(last'.arg.calls)))
             /\ \A i \in 1..Len(LastStaged(last'.arg.calls)) :
                   get_attribute(attrs', m.obj, LastStaged(last'.arg.calls)[i][1])
                      = Ok(Some(LastStaged(last'.arg.calls)[i][2]))]_vars

\* A node built with two attributes that the loop applied in the order
\* opposite to the one they were staged in.
C14_Witness ==
    /\ last.op = "NodeBuilder::build"
    /\ last.ret.ok
    /\ last.arg.calls = <<<<KeyY, ValW>>, <<KeyX, ValV>>>>
    /\ last.arg.applied = <<KeyX, KeyY>>
    /\ get_attribute(attrs, [id |-> last.ret.val, type |-> AGNODE], KeyX)
          = Ok(Some(ValV))


\* The pairs of a chain for the names of a sequence, in its order.
RECURSIVE PairsOf(_, _)
PairsOf(names, calls) ==
    IF names = <<>> THEN <<>>
    ELSE <<CHOOSE p \in {LastStaged(calls)[i] : i \in 1..Len(LastStaged(calls))} :
               p[1] = Head(names)>> \o PairsOf(Tail(names), calls)

StagedNames(calls) == {calls[i][1] : i \in 1..Len(calls)}

\* C15: a NodeBuilder::build or EdgeBuilder::build whose loop meets a
\* set_attribute that fails returns that call's error and undoes nothing: the
\* node or edge made stays in the graph (the counts keep the increase), the
\* attributes applied before the failure hold their staged values, and
\* neither the failing one nor any staged attribute after it is applied (the
\* attribute state is the one that applying the earlier ones alone leaves).
C15_NoRollback ==
    [][(last'.op \in {"NodeBuilder::build", "EdgeBuilder::build"}
           /\ last'.arg.failed # None) =>
          LET a == last'.arg
              failed == a.failed[1]
              before == PairsOf(a.applied, a.calls)
              value == PairsOf(<<failed>>, a.calls)[1][2]
          IN /\ ~last'.ret.ok
             /\ failed \in StagedNames(a.calls)
             /\ \A i \in 1..Len(a.applied) :
                   a.applied[i] \in StagedNames(a.calls) \ {failed}
             /\ \E m \in MadeDirectly(last') :
                   /\ g_nodes' = m.nodes
                   /\ g_edges' = m.edges
                   /\ IF last'.op = "NodeBuilder::build"
                      THEN /\ m.obj.id \in Nodes'
                           /\ node_count' = node_count
                                 + (IF m.obj.id \in Nodes THEN 0 ELSE 1)
                      ELSE /\ m.obj.id \in Edges'
                           /\ edge_count' = edge_count
                                 + (IF m.obj.id \in Edges THEN 0 ELSE 1)
                   /\ attrs' = Direct(m.attrs, m.obj, before)
                   /\ \A i \in 1..Len(before) :
                         get_attribute(attrs', m.obj, before[i][1])
                            = Ok(Some(before[i][2]))
                   /\ \E alloc \in BOOLEAN :
                         LET r == set_attribute(attrs', m.obj, failed, value, alloc)
                         IN ~r.ret.ok /\ last'.ret.err = r.ret.err]_vars

\* A node build that failed on its second attribute: the node is in the
\* graph, with the first attribute applied.
C15_Witness ==
    /\ last.op = "NodeBuilder::build"
    /\ last.ret.err = "InvalidString"
    /\ last.arg.applied = <<KeyX>>
    /\ last.arg.failed = Some(NameNul)
    /\ NodeNamed(last.arg.self.name) # NULL
    /\ get_attribute(attrs, [id |-> NodeNamed(last.arg.self.name), type |-> AGNODE],
                     KeyX) = Ok(Some(ValV))


\* C16: a remove_node(n) that succeeds leaves no node of n's name (get_node
\* finds none), one node less, and none of the edges incident on n, the
\* other edges staying (edge_count is down by the number of incident edges);
\* a remove_edge(e) that succeeds leaves one edge less, e's, and the nodes
\* as they were; when the native removal reports a failure the calls return
\* NodeCreationFailed and EdgeCreationFailed.
C16_Remove ==
    [][/\ last'.op = "remove_node" =>
             LET n == last'.arg.node
             IN IF last'.ret.ok
                THEN /\ n \in Nodes
                     /\ \A m \in Nodes' : g_nodes'[m] # g_nodes[n]
                     /\ node_count' = node_count - 1
                     /\ Edges' = Edges \ IncidentEdges(n)
                     /\ edge_count' = edge_count - Cardinality(IncidentEdges(n))
                ELSE /\ last'.ret.err = "NodeCreationFailed"
                     /\ agdelnode(n).ret # 0
       /\ last'.op = "remove_edge" =>
             LET e == last'.arg.edge
             IN IF last'.ret.ok
                THEN /\ Edges' = Edges \ {e.id}
                     /\ edge_count' = edge_count - 1
                     /\ g_nodes' = g_nodes
                     /\ node_count' = node_count
                ELSE /\ last'.ret.err = "EdgeCreationFailed"
                     /\ agdeledge(e).ret # 0]_vars

\* A remove_node that took the node's edge with it and left the other node.
C16_Witness ==
    /\ last.op = "remove_node"
    /\ last.ret.ok
    /\ last.pre.ec = 1
    /\ last.pre.nc = 2
    /\ edge_count = 0
    /\ node_count = 1

\* C17: for the same laid-out graph and format, render_to_string returns the
\* base64 encoding (standard alphabet, padded) of the bytes render_to_bytes
\* returns exactly when the format is png, gif, jpeg, pdf, bmp or svgz; for
\* every other format it returns those bytes decoded as UTF-8, and fails
\* with InvalidUtf8 when they are not valid UTF-8.
SextetOf(c) ==
    IF 65 <= c /\ c <= 90 THEN c - 65
    ELSE IF 97 <= c /\ c <= 122 THEN c - 71
    ELSE IF 48 <= c /\ c <= 57 THEN c + 4
    ELSE IF c = 43 THEN 62
    ELSE IF c = 47 THEN 63
    ELSE 0 - 1
\* s is the padded base64 text of the bytes b
IsBase64Of(s, b) ==
    LET groups == (Len(b) + 2) \div 3
        bits(k) == IF k <= Len(b) THEN b[k] ELSE 0
    IN /\ Len(s) = 4 * groups
       /\ \A g \in 1..groups :
             LET i == 3 * (g - 1)
                 word == bits(i + 1) * 65536 + bits(i + 2) * 256 + bits(i + 3)
             IN /\ SextetOf(s[4 * g - 3]) = word \div 262144
                /\ SextetOf(s[4 * g - 2]) = (word \div 4096) % 64
                /\ IF i + 2 <= Len(b)
                   THEN SextetOf(s[4 * g - 1]) = (word \div 64) % 64
                   ELSE s[4 * g - 1] = 61
                /\ IF i + 3 <= Len(b)
                   THEN SextetOf(s[4 * g]) = word % 64
                   ELSE s[4 * g] = 61
\* b is the UTF-8 encoding of the scalar values s
RECURSIVE Utf8Of(_)
Utf8Of(s) ==
    IF Len(s) = 0 THEN <<>>
    ELSE LET c == Head(s) IN
         (IF c < 128 THEN <<c>>
          ELSE IF c < 2048 THEN <<192 + (c \div 64), 128 + (c % 64)>>
          ELSE IF c < 65536
          THEN <<224 + (c \div 4096), 128 + ((c \div 64) % 64), 128 + (c % 64)>>
          ELSE <<240 + (c \div 262144), 128 + ((c \div 4096) % 64),
                 128 + ((c \div 64) % 64), 128 + (c % 64)>>) \o Utf8Of(Tail(s))
IsScalar(c) == 0 <= c /\ c <= 1114111 /\ ~(55296 <= c /\ c <= 57343)
Base64Formats == {"png", "gif", "jpeg", "pdf", "bmp", "svgz"}
C17_RenderToString ==
    last.op = "render_to_string" =>
        LET bytes == render_to_bytes(last.arg.format) IN
        /\ bytes.ok =>
             IF last.arg.format \in Base64Formats
             THEN last.ret.ok /\ IsBase64Of(last.ret.val, bytes.val)
             ELSE IF last.ret.ok
                  THEN /\ \A i \in 1..Len(last.ret.val) : IsScalar(last.ret.val[i])
                       /\ Utf8Of(last.ret.val) = bytes.val
                  ELSE /\ last.ret.err = "InvalidUtf8"
                       /\ \E i \in 1..Len(bytes.val) :
                             \/ bytes.val[i] = 195 /\ (i = Len(bytes.val) \/ bytes.val[i + 1] # 169)
                             \/ bytes.val[i] = 169 /\ (i = 1 \/ bytes.val[i - 1] # 195)
        /\ ~bytes.ok => last.ret = bytes
C17_Witness ==
    /\ last.op = "render_to_string"
    /\ last.arg.format = "svgz"
    /\ rt[1].render.buffer = Some(<<65, 195>>)
    /\ last.ret = Ok(<<81, 99, 77, 61>>)

\* C18: render_to_writer writes all or reports an error: when it returns Ok
\* the sink has received exactly the bytes render_to_bytes returns for the
\* same graph and format; when rendering fails it returns the render error
\* and the sink has received nothing; when the sink fails it returns IoError.
SinkFails(buf, writer) ==
    \E k \in 1..Len(writer) :
       /\ \/ writer[k].kind = "Failed"
          \/ writer[k].kind = "Ok" /\ writer[k].n = 0
       /\ \A j \in 1..(k - 1) : writer[j].kind # "Failed"
       /\ LET taken == {j \in 1..(k - 1) : writer[j].kind = "Ok"}
              RECURSIVE Sum(_)
              Sum(S) == IF S = {} THEN 0
                        ELSE LET j == CHOOSE x \in S : TRUE
                             IN writer[j].n + Sum(S \ {j})
          IN /\ \A j \in taken : writer[j].n > 0
             /\ Sum(taken) < Len(buf)
C18_RenderToWriter ==
    last.op = "render_to_writer" =>
        LET bytes == render_to_bytes(last.arg.format) IN
        /\ last.ret.ok => bytes.ok /\ last.arg.sink = bytes.val
        /\ ~bytes.ok => last.ret = bytes /\ last.arg.sink = <<>>
        /\ bytes.ok /\ SinkFails(bytes.val, last.arg.writer) =>
              ~last.ret.ok /\ last.ret.err = "IoError"
        /\ bytes.ok /\ ~SinkFails(bytes.val, last.arg.writer) => last.ret.ok
C18_Witness ==
    /\ last.op = "render_to_writer"
    /\ last.arg.writer = <<WriteOk(2), Interrupted, WriteOk(1)>>
    /\ rt[1].render.buffer = Some(<<65, 195, 169>>)
    /\ last.ret.ok
    /\ last.arg.sink = <<65, 195, 169>>

\* C19: is_directed and is_strict are the flags the graph was created with:
\* Graph::new(name, d) gives (d, non-strict), new_with_strictness(name, d,
\* s) gives (d, s), and a GraphBuilder gives the flags last staged on it,
\* directed and non-strict when none was; no later operation changes what
\* they return.
RECURSIVE LastFlag(_, _, _)
LastFlag(flags, f, default) ==
    IF flags = <<>> THEN default
    ELSE LET l == flags[Len(flags)] IN
         IF l.f = f THEN l.v
         ELSE LastFlag(SubSeq(flags, 1, Len(flags) - 1), f, default)
Creations == {"Graph::new", "Graph::new_with_strictness", "GraphBuilder::build"}
C19_KindFixed ==
    [][/\ last'.op = "Graph::new" /\ last'.ret.ok =>
             /\ is_directed' = last'.arg.desc.directed
             /\ is_strict' = FALSE
       /\ last'.op = "Graph::new_with_strictness" /\ last'.ret.ok =>
             /\ is_directed' = last'.arg.desc.directed
             /\ is_strict' = last'.arg.desc.strict
       /\ last'.op = "GraphBuilder::build" /\ last'.ret.ok =>
             /\ is_directed' = LastFlag(last'.arg.flags, "directed", TRUE)
             /\ is_strict' = LastFlag(last'.arg.flags, "strict", FALSE)
       /\ last'.op \notin Creations =>
             /\ is_directed' = is_directed
             /\ is_strict' = is_strict
       /\ last'.op = "is_directed" => last'.ret = Ok(is_directed)
       /\ last'.op = "is_strict" => last'.ret = Ok(is_strict)]_vars
C19_Witness ==
    /\ last.op = "is_strict"
    /\ last.ret = Ok(TRUE)
    /\ ~is_directed
    /\ g_edges # <<>>
    /\ attrs.dict.g # <<>>

\* C20, as claimed: in a directed graph from_node() of an edge made by
\* add_edge(from, to, _) is the node `from`, whether the handle was returned
\* by add_edge or find_edge or yielded by out_edges, in_edges or edges(),
\* self-loops and parallel edges included.
C20_AsClaimed ==
    (last.op = "from_node" /\ desc.directed) =>
        last.ret.val = g_edges[last.arg.edge.id].tail

\* C21: each Context releases its native handle exactly once, when it is
\* dropped: a handle is unreleased while its Context lives and released once
\* after; the drop of one Context releases that Context's handle and leaves
\* every other handle as it was; and every apply_layout, free_layout and
\* render call is given a handle that has not been released.
ContextUses == {"apply_layout", "free_layout"} \cup RenderCalls
C21_ContextReleasedOnce ==
    [][/\ \A h \in DOMAIN rt' : rt'[h].frees = (IF rt'[h].owner THEN 0 ELSE 1)
       /\ last'.op = "Context::drop" =>
             /\ rt[last'.arg.self.inner].frees = 0
             /\ rt'[last'.arg.self.inner].frees = 1
             /\ DOMAIN rt' = DOMAIN rt
             /\ \A h \in DOMAIN rt \ {last'.arg.self.inner} : rt'[h] = rt[h]
       /\ last'.op # "Context::drop" =>
             \A h \in DOMAIN rt : rt'[h] = rt[h]
       /\ last'.op \in ContextUses => ~last'.arg.released]_vars
C21_Witness ==
    /\ Len(rt) = 2
    /\ rt[1].frees = 1
    /\ rt[2].owner
    /\ last.op = "apply_layout"
    /\ last.arg.context = [inner |-> 2]
    /\ ~last.arg.released

\* C22: add_edge with a `from` or `to` node of another graph (and a name
\* without NUL) is rejected with EdgeCreationFailed, and the graph holds the
\* edges it held before the call.
C22_AsClaimed ==
    (/\ last.op = "add_edge"
     /\ ForeignNode \in {last.arg.from, last.arg.to}
     /\ last.arg.name = None \/ ~HasNul(last.arg.name[1]))
    => /\ last.ret.err = "EdgeCreationFailed"
       /\ agnedges = last.pre.ec

\* C23: in edges() (all-edges mode) on an unmodified graph, when the iterator
\* has returned None every edge of the graph has been yielded at least once,
\* whichever nodes have no edges.
YieldedEdges(it) == {it.yielded[i].id : i \in DOMAIN it.yielded}
C23_NoEarlyEnd ==
    (eit.live /\ eit.node = NULL /\ eit.clean /\ eit.ended)
    => Edges \subseteq YieldedEdges(eit)
C23_Witness ==
    /\ eit.live /\ eit.node = NULL /\ eit.clean /\ eit.ended
    /\ Nodes = {1, 2, 3}
    /\ IncidentEdges(1) = {}
    /\ IncidentEdges(2) = {}
    /\ Edges # {}
    /\ Edges \subseteq YieldedEdges(eit)

\* C27: on a graph that is not modified during iteration, the items a
\* NodeIter has yielded never number more than the nodes of the graph, those
\* of an EdgeIter never more than two per edge (one per edge of the node in
\* the outgoing and incoming modes): every next() either yields one more item
\* or returns None, so None is returned after finitely many calls; and on an
\* iterator that has returned None, next() returns None and leaves the
\* iterator as it is, so every later call returns None too.
YieldBound(it) ==
    IF it.node = NULL THEN 2 * agnedges
    ELSE IF it.outgoing THEN Cardinality(OutSet(it.node))
    ELSE Cardinality(InSet(it.node))
C27_Terminates ==
    /\ nit.live => Len(nit.yielded) <= agnnodes
    /\ eit.live => Len(eit.yielded) <= YieldBound(eit)
    /\ (nit.live /\ nit.ended) =>
          \A r \in NodeIterNext(nit) : r.ret = NULL /\ r.it = nit
    /\ (eit.live /\ eit.ended) =>
          \A r \in EdgeIterNext(eit) : r.ret = NULLE /\ r.it = eit
    /\ (nit.live /\ ~nit.ended) =>
          \A r \in NodeIterNext(nit) :
             r.it.ended \/ Len(r.it.yielded) = Len(nit.yielded) + 1
    /\ (eit.live /\ ~eit.ended) =>
          \A r \in EdgeIterNext(eit) :
             r.it.ended \/ Len(r.it.yielded) = Len(eit.yielded) + 1
C27_Witness ==
    /\ eit.live /\ eit.ended /\ eit.clean
    /\ eit.node # NULL /\ ~eit.outgoing
    /\ Len(eit.yielded) = 2
    /\ last.op = "EdgeIter::next" /\ last.ret = Ok(NULLE)

\* C24: a successful set_attribute(name, value) on a node (or edge) gives
\* that object the value and changes nothing else: every other node (or
\* edge) holds for `name` what it held before the call, or the empty string
\* when the call was the first to use the name; the graph and the objects of
\* the other kind keep all of theirs; a node or edge created later reads the
\* empty string for every name in use; and the default of every name, for
\* nodes and for edges, is the empty string after every step.
Reads(a, o, name) == get_attribute(a, o, name)
GivenNul(call) ==
    CASE call.op \in {"add_node", "get_node", "get_attribute"} -> HasNul(call.arg.name)
      [] call.op = "add_edge" -> call.arg.name # None /\ HasNul(call.arg.name[1])
      [] call.op = "set_attribute" -> HasNul(call.arg.name) \/ HasNul(call.arg.value)
      [] OTHER -> FALSE

\* C25, as claimed: add_node, get_node, add_edge, set_attribute and
\* get_attribute given a name or value with a NUL fail with InvalidString
\* with no native call made, and the graph has the nodes and edges it had.
C25_AsClaimed ==
    GivenNul(last) =>
        /\ last.ret.err = "InvalidString"
        /\ NativesBefore(last) = <<>>
        /\ agnnodes = last.pre.nc /\ agnedges = last.pre.ec

\* C25, amended: those calls fail with InvalidString before any native call
\* other than agraphof (which Node::set_attribute and Edge::set_attribute
\* make first, and which only reads), and leave the graph, its nodes, its
\* edges and every attribute declaration and value as they were.
C25_InvalidString ==
    [][GivenNul(last') =>
          /\ last'.ret.err = "InvalidString"
          /\ \A i \in DOMAIN NativesBefore(last') : NativesBefore(last')[i] = "agraphof"
          /\ (last'.op # "set_attribute" \/ last'.arg.obj.type = AGRAPH) =>
                NativesBefore(last') = <<>>
          /\ <<desc, g_nodes, g_edges, seq, attrs>>' = <<desc, g_nodes, g_edges, seq, attrs>>
      ]_vars
\* An edge's set_attribute refused for the NUL in its value.
C25_Witness ==
    /\ last.op = "set_attribute"
    /\ last.arg.obj.type = AGEDGE
    /\ ~HasNul(last.arg.name) /\ HasNul(last.arg.value)
    /\ last.ret.err = "InvalidString"
    /\ NativesBefore(last) = <<"agraphof">>
    /\ get_attribute(attrs, last.arg.obj, last.arg.name) = Ok(None)

\* C26: the node Edge::from_node returns is the tail or the head of the edge
\* it is called on, whichever path the call takes (the in-edge half's node,
\* the scan of the nodes, the fallback), in a directed and in an undirected
\* graph.
EndsOf(h) == {g_edges[h.id].tail, g_edges[h.id].head}
C28_FreedOnce ==
    last.op \in {"render_to_string", "render_to_bytes"} =>
        LET r == rt[1].render IN
        /\ r.result = 0 /\ r.buffer # None => last.arg.freed = <<r.buffer>>
        /\ r.result # 0 \/ r.buffer = None => last.arg.freed = <<>>
        /\ last.ret.err \in {"RenderFailed", "NullPointer"} => last.arg.freed = <<>>
        /\ last.ret.ok \/ last.ret.err = "InvalidUtf8" => Len(last.arg.freed) = 1

\* A text rendering that is not UTF-8: the buffer is freed before the
\* InvalidUtf8 return.
C28_Witness ==
    /\ last.op = "render_to_string"
    /\ last.ret.err = "InvalidUtf8"
    /\ rt[1].render.buffer # None
    /\ last.arg.freed = <<rt[1].render.buffer>>

\* C29: with remove_node and remove_edge calls interleaved with the next()
\* calls of a live NodeIter or EdgeIter of the same graph, every handle the
\* iterator yields is of a node or an edge the graph holds when it is
\* yielded.
C29_AsClaimed ==
    /\ last.op = "NodeIter::next" =>
           last.ret.val = NULL \/ last.ret.val \in Nodes
    /\ last.op = "EdgeIter::next" =>
           last.ret.val = NULLE \/ last.ret.val.id \in Edges

\* The native value of a graph attribute: None while it is not declared.
GraphAttr(a, name) ==
    IF name \in DOMAIN a.dict.g THEN Some(a.g[name]) ELSE None

\* C30: after RenderOptions::apply succeeds, bgcolor is the configured
\* background when there is one (transparent set or not), "transparent"
\* when only transparent is set, and what it was when neither is set; and an
\* attribute whose option is None or at its default is not written: no
\* set_attribute call names it and its value is what it was.
C30_Apply ==
    [][ last'.op = "apply" /\ last'.ret.ok =>
          LET self == rt[1]
              written(name) == \E i \in 1..Len(last'.arg.calls) :
                                  last'.arg.calls[i] = name
              kept(name) == /\ ~written(name)
                            /\ GraphAttr(attrs', name) = GraphAttr(attrs, name)
          IN /\ self.background # None =>
                    GraphAttr(attrs', bgcolor) = self.background
             /\ self.background = None /\ self.transparent =>
                    GraphAttr(attrs', bgcolor) = Some(transparent)
             /\ self.background = None /\ ~self.transparent => kept(bgcolor)
             /\ self.anti_alias => kept(smoothing)
             /\ self.dpi = None => kept(dpi)
             /\ ~self.show_bb => kept(bb)
             /\ self.scale = None => kept(scale)
             /\ self.size = None => kept(size)
             /\ self.quality = None => kept(quality)
             /\ self = RenderOptions_default => attrs' = attrs
      ]_vars

\* A background and transparency together, on a graph whose bgcolor was
\* "black" and whose dpi was 72: bgcolor is the background, dpi is kept.
C30_Witness ==
    /\ last.op = "apply"
    /\ last.ret.ok
    /\ rt[1].transparent
    /\ rt[1].background = Some(white)
    /\ rt[1].dpi = None
    /\ last.arg.calls = <<bgcolor, bgcolor>>
    /\ GraphAttr(attrs, bgcolor) = Some(white)
    /\ GraphAttr(attrs, dpi) = Some(u32_to_string(72))

====
